---- MODULE Spec2Model ----
(***************************************************************************)
(* A model of olmax: the naming contexts and the lazily filled parameter   *)
(* store (context.py, backend.py), the reversible residual stream          *)
(* (model.py, model/reversible.py) and the checkpoint writer               *)
(* (utils/checkpoint.py).                                                  *)
(*                                                                         *)
(* Python objects live in heaps: a Context is a record in ctxs whose dict  *)
(* attributes are references (indices) into name_caches, param_stores,     *)
(* dim_stores and variance_stores, so that copy.copy (shallow) and         *)
(* attribute assignment alias exactly as they do in Python.  Strings are   *)
(* sequences of tokens: a base name, "/", ":" and decimal digits.          *)
(***************************************************************************)
EXTENDS Integers, Sequences, FiniteSets, TLC

\* ------------------------------------------------------------------ bounds

\* contexts one pass over the forward graph may allocate, its root included
MaxCtx == 4
\* calls (scope entries, exits, get_param) an initializing pass may make
MaxScript == 5
\* calls the main pass may make
MaxRun == 2
\* size of the stacking axis of a stacked-orthogonal parameter
StackSize == 2
\* layers of a reversible chain
MaxDepth == 2
\* local devices, each writing one shard of a checkpoint
MaxShards == 2
\* tensors of a parameter mapping that is written to a checkpoint
MaxTensors == 11
\* axes of a parameter the optimizer updates
MaxRank == 3
\* the step counter of an optimizer update
MaxStep == 1
\* layers of the forward graph body_ctx builds
MaxLayers == 1
\* invocations of blocks the backward pass may make
MaxBackward == 3

\* calls of the driver step train_loop builds
MaxInvocations == 2
\* ctx.training.device_steps
MaxDeviceSteps == 2
\* ctx.optimizer.warmup_end
MaxWarmup == 2
\* ctx.optimizer.statistics_compute_steps
MaxComputeSteps == 2

\* tokens_per_file
MaxChunk == 3
\* tokens one queue entry is tokenized to
MaxFrames == 3
\* token identities a worker may hand out
MaxTokens == 7

\* processes that call ListQueue.get
MaxGetters == 2
\* processes that call ListQueue.put
MaxPutters == 2

\* processes that call SharedQueue.put
MaxFrameWorkers == 2
\* processes that call SharedQueue.get
MaxWorkers == 1
\* a quarter of the rows of the shared frame
MaxSlice == 2
\* calls of SharedQueue.put
MaxPuts == 2
\* calls of SharedQueue.get
MaxGets == 2

\* processes that use the QueuedSemaphore
MaxJobs == 2
\* the value a QueuedSemaphore is made with
MaxValue == 2

\* base names of the naming scopes the forward graph enters
ScopeNames == {"normalization", "feed_forward"}
\* names given to get_param
ParamNames == {"scale", "weight"}

\* ------------------------------------------------------------------ state

VARIABLES
    ctxs,             \* heap of Context objects
    name_caches,      \* heap of name_cache dicts: base name -> last suffix
    param_stores,     \* heap of parameters dicts: full name -> value
    dim_stores,       \* heap of parameter_dims dicts: full name -> symbolic shape
    variance_stores,  \* heap of parameter_variance dicts: full name -> lr scale
    stack,            \* call stack of the pass: the context each frame works on
    mode,             \* "init": first initializing pass, "reinit": a second one
                      \* on a fresh Context, "run": the main pass of compute()
    script,           \* the calls the first initializing pass made
    pos,              \* calls made so far in the current pass
    roots,            \* the root Context of every pass, in order
    src_params,       \* slot 0 of the tuple body_ctx threads through the blocks
    born,             \* history: for every context its add_to_prefix call
    owner,            \* history: which position created each parameter name
    collision,        \* history: a creation resolved to another position's name
    last,             \* history: the call just made, with the heap before it
    rev_variant,      \* which reversible runs: "custom_gradient" (model/reversible.py)
                      \* or "custom_vjp" (the top-level model.py)
    rev_depth,        \* layers of the chain; every layer is two reversible blocks
    rev_params,       \* the parameter mapping: key -> weight
    rev_cotangent,    \* the gradient of the loss with respect to the chain's output
    rev_src,          \* the tuple (params, x0, x0_backup, x1, x1_backup) threaded forward
    rev_pc,           \* "forward", "out", "backward" or "done"
    rev_i,            \* the block to run next
    rev_inputs,       \* history: the tuple every block received on the forward pass
    rev_outputs,      \* the tuple every block returned (custom_vjp keeps it as residual)
    rev_result,       \* the chain's output x0 + x1
    rev_dy,           \* the gradient tuple (d_params, dy0, y0, dy1, y1) handed backward
    rev_dy_in,        \* history: the gradient tuple the last backward step received
    rev_contrib,      \* history: the sum of every block's own parameter gradients
    ck_entry,         \* the writer called: "write_checkpoint" or "write_train_checkpoint"
    ck_is_main,       \* is_main(): this process writes structure.json
    ck_shards,        \* device_ids(): the number of local shards
    ck_pc,            \* "structure", "write", "done", "structure_failed" or "failed"
    ck_job,           \* the write call being made: an index into the writer's calls
    ck_attempt,       \* upload attempts the current retry loop has made
    ck_uploaded,      \* the files written to storage
    ck_last,          \* history: the outcome of the last upload attempt
    rd_params,        \* ctx.parameters of the run that writes the checkpoint
    rd_wshards,       \* the number of local shards of the run that writes
    rd_shards,        \* the number of local shards of the run that reads
    rd_storage,       \* the checkpoint directory: path -> file content
    rd_live,          \* ctx.parameters of the run that reads
    rd_live0,         \* history: ctx.parameters of the reader before the load
    rd_structure,     \* the structure read from structure.json
    rd_pc,            \* "write", "read", "map", "returned", "raised" or "unflatten_raised"
    rd_task,          \* the read_shard tasks: "queued", "running", "done" or "raised"
    rd_value,         \* the pool's result list
    rd_order,         \* history: the tasks in the order they finished
    rd_new,           \* history: the mapping _read_shards returned
    rd_printed,       \* the diagnostic lists _overwrite printed
    opt_parameters,   \* ctx.parameters of the context update works on
    opt_variance,     \* ctx.parameter_variance: name -> learning-rate scale
    opt_grads,        \* the gradients given to update: name -> tensor
    opt_step,         \* the step counter given to update
    opt_config,       \* ctx.optimizer
    opt_pc,           \* "ready" or "updated"
    blk_depth,        \* ctx.dims.sizes.depth: the layers of body_ctx
    blk_pc,           \* where body_ctx is: pass, phase, block, place, calls made
    blk_snapshot,     \* the name_cache each reversible call captured for its base
    blk_names,        \* the names the running invocation has resolved
    blk_invocations,  \* history: the invocations of the blocks and their names
    blk_backward,     \* backward invocations made
    blk_created,      \* history: a get_param of the main pass created a parameter
    blk_key,          \* history: the key left by the last draw of the running block
    tr_config,        \* ctx.optimizer and ctx.training of a training run
    tr_args,          \* the heavyball and nesterov arguments ema is called with
    tr_grad,          \* the gradient of the one-entry parameter
    tr_step,          \* wctx.current_step, a uint32 that stays far below 2^32 here
    tr_pc,            \* where the run is: main, driver, cond, lr, ema, shampoo, increment
    tr_parameters,    \* the optimizer buffers in ctx.parameters
    tr_lr,            \* history: what the last get_current_lr returned, and for which step
    tr_ema,           \* history: what the last ema call stored and returned
    tr_shampoo,       \* history: what the last shampoo call read and stored
    tr_iterations,    \* history: train_step iterations of the running driver step
    tr_slices,        \* history: the data indices the running driver step has read
    tr_invocations,   \* history: the driver steps that returned
    rec_chunk_size,   \* tokens_per_file: the tokens of one uploaded file
    rec_tokens,       \* worker's list tokens
    rec_uploaded,     \* history: the files uploaded, in order
    rec_tfrecord_id,  \* worker's tfrecord_id
    rec_fresh,        \* history: token identities handed out
    rec_last,         \* history: the list the last write_tfrecords was given and what it returned
    rec_pc,           \* run, done or idle
    lq_list,          \* ListQueue.list
    lq_read_lock,     \* the holder of ListQueue.read_lock, or Free
    lq_write_lock,    \* the holder of ListQueue.write_lock, or Free
    lq_cond_lock,     \* the holder of the lock of ListQueue.cond, or Free
    lq_pc,            \* where each process is in get or put
    lq_got,           \* what get returned to each getter
    sq_indices,       \* SharedQueue.indices, the recorded (start, end) regions
    sq_frame,         \* SharedQueue.frame, row by row
    sq_write_lock,    \* the holder of SharedQueue.write_index_lock, or Free
    sq_read_lock,     \* the holder of SharedQueue.read_index_lock, or Free
    sq_pc,            \* where each process is in put or get
    sq_local,         \* the local variables of each process in put or get
    sq_calls,         \* the calls of put made so far
    sq_recorded,      \* every region put recorded, with the index list it was added to
    sq_returned,      \* every array get returned, with the region it was read from
    sem_max_value,    \* QueuedSemaphore.max_value
    sem_value,        \* QueuedSemaphore._value[0]
    sem_queue,        \* QueuedSemaphore._queue, the job ids waiting for a grant
    sem_cond_lock,    \* the holder of the lock of QueuedSemaphore._cond, or Free
    sem_queue_lock,   \* the holder of QueuedSemaphore._queue_lock, or Free
    sem_pc,           \* where each process is in acquire or release
    sem_job,          \* job_id and val of each process, and whether it has waited
    sem_arrivals,     \* the job ids in the order they were appended to the queue
    sem_granted       \* the acquires that returned, in order, with what they saw

naming_vars == <<ctxs, name_caches, param_stores, dim_stores, variance_stores,
                 stack, mode, script, pos, roots, src_params, born, owner, collision, last>>

rev_vars == <<rev_variant, rev_depth, rev_params, rev_cotangent, rev_src, rev_pc,
              rev_i, rev_inputs, rev_outputs, rev_result, rev_dy, rev_dy_in,
              rev_contrib>>

ck_vars == <<ck_entry, ck_is_main, ck_shards, ck_pc, ck_job, ck_attempt,
             ck_uploaded, ck_last>>

rd_vars == <<rd_params, rd_wshards, rd_shards, rd_storage, rd_live, rd_live0,
             rd_structure, rd_pc, rd_task, rd_value, rd_order, rd_new, rd_printed>>

opt_vars == <<opt_parameters, opt_variance, opt_grads, opt_step, opt_config, opt_pc>>

blk_vars == <<blk_depth, blk_pc, blk_snapshot, blk_names, blk_invocations, blk_backward,
              blk_created, blk_key>>

tr_vars == <<tr_config, tr_args, tr_grad, tr_step, tr_pc, tr_parameters, tr_lr, tr_ema,
             tr_shampoo, tr_iterations, tr_slices, tr_invocations>>

rec_vars == <<rec_chunk_size, rec_tokens, rec_uploaded, rec_tfrecord_id, rec_fresh,
              rec_last, rec_pc>>

lq_vars == <<lq_list, lq_read_lock, lq_write_lock, lq_cond_lock, lq_pc, lq_got>>

sq_vars == <<sq_indices, sq_frame, sq_write_lock, sq_read_lock, sq_pc, sq_local,
             sq_calls, sq_recorded, sq_returned>>

sem_vars == <<sem_max_value, sem_value, sem_queue, sem_cond_lock, sem_queue_lock,
              sem_pc, sem_job, sem_arrivals, sem_granted>>

vars == <<naming_vars, rev_vars, ck_vars, rd_vars, opt_vars, blk_vars, tr_vars, rec_vars, lq_vars, sq_vars, sem_vars>>

\* what the actions of one part leave alone
not_naming == <<rev_vars, ck_vars, rd_vars, opt_vars, blk_vars, tr_vars, rec_vars, lq_vars, sq_vars, sem_vars>>
not_reversible == <<naming_vars, ck_vars, rd_vars, opt_vars, blk_vars, tr_vars, rec_vars, lq_vars, sq_vars, sem_vars>>
not_checkpoint == <<naming_vars, rev_vars, rd_vars, opt_vars, blk_vars, tr_vars, rec_vars, lq_vars, sq_vars, sem_vars>>
not_reader == <<naming_vars, rev_vars, ck_vars, opt_vars, blk_vars, tr_vars, rec_vars, lq_vars, sq_vars, sem_vars>>
not_optimizer == <<naming_vars, rev_vars, ck_vars, rd_vars, blk_vars, tr_vars, rec_vars, lq_vars, sq_vars, sem_vars>>
not_blocks == <<rev_vars, ck_vars, rd_vars, opt_vars, tr_vars, rec_vars, lq_vars, sq_vars, sem_vars>>
not_train == <<naming_vars, rev_vars, ck_vars, rd_vars, opt_vars, blk_vars, rec_vars, lq_vars, sq_vars, sem_vars>>
not_records == <<naming_vars, rev_vars, ck_vars, rd_vars, opt_vars, blk_vars, tr_vars, lq_vars, sq_vars, sem_vars>>
not_listqueue == <<naming_vars, rev_vars, ck_vars, rd_vars, opt_vars, blk_vars, tr_vars, rec_vars, sq_vars, sem_vars>>
not_sharedqueue == <<naming_vars, rev_vars, ck_vars, rd_vars, opt_vars, blk_vars, tr_vars, rec_vars, lq_vars, sem_vars>>
not_semaphore == <<naming_vars, rev_vars, ck_vars, rd_vars, opt_vars, blk_vars, tr_vars, rec_vars, lq_vars, sq_vars>>

\* ------------------------------------------------------------------ strings

Digit(d) ==
    CASE d = 0 -> "0" [] d = 1 -> "1" [] d = 2 -> "2" [] d = 3 -> "3"
      [] d = 4 -> "4" [] d = 5 -> "5" [] d = 6 -> "6" [] d = 7 -> "7"
      [] d = 8 -> "8" [] d = 9 -> "9"

RECURSIVE DecStr(_)
\* format(k, 'd'): the decimal digits of k, with a sign when negative
DecStr(k) ==
    IF k < 0 THEN <<"-">> \o DecStr(-k)
    ELSE IF k < 10 THEN <<Digit(k)>>
    ELSE DecStr(k \div 10) \o <<Digit(k % 10)>>

DigitValue(s) ==
    CASE s = "0" -> 0 [] s = "1" -> 1 [] s = "2" -> 2 [] s = "3" -> 3
      [] s = "4" -> 4 [] s = "5" -> 5 [] s = "6" -> 6 [] s = "7" -> 7
      [] s = "8" -> 8 [] s = "9" -> 9

RECURSIVE ParseDec(_)
\* int(text) of a decimal numeral
ParseDec(text) ==
    IF text = <<>> THEN 0
    ELSE IF Head(text) = "-" THEN -ParseDec(Tail(text))
    ELSE 10 * ParseDec(SubSeq(text, 1, Len(text) - 1)) + DigitValue(text[Len(text)])

EmptyDict == [x \in {} |-> 0]

\* d[k] = v on a dict
Put(d, k, v) == [x \in DOMAIN d \cup {k} |-> IF x = k THEN v ELSE d[x]]

\* ------------------------------------------------------------------ Context

\* random.PRNGKey(seed); a key is the path of splits that led to it
PRNGKey(seed) == <<seed>>

\* random.split(key): two keys, both new
split(key) == <<Append(key, 0), Append(key, 1)>>

\* a variant of Context() whose name_cache is one dict shared by all instances
ContextSharedCache(nc, ps, ds, vs, initializing) ==
    [global_prefix |-> <<>>, name_cache |-> 1, parameters |-> ps,
     parameter_dims |-> ds, parameter_variance |-> vs,
     prng_key |-> PRNGKey(0), is_initializing |-> initializing]

\* Context.__init__: seed 0, empty prefix, the references of its fresh dicts
Context(nc, ps, ds, vs, initializing) ==
    [global_prefix |-> <<>>, name_cache |-> nc, parameters |-> ps,
     parameter_dims |-> ds, parameter_variance |-> vs,
     prng_key |-> PRNGKey(0), is_initializing |-> initializing]

\* a variant of incremental_name's update that restarts the counter at 0
restarted_name_cache(cache, name) ==
    [n \in DOMAIN cache \cup {name} |-> IF n = name THEN 0 ELSE cache[n]]

\* Context.incremental_name, the dict after it: absent names start at -1,
\* then the counter is incremented
incremental_name_cache(cache, name) ==
    LET started == [n \in DOMAIN cache \cup {name} |->
                        IF n \in DOMAIN cache THEN cache[n] ELSE -1]
    IN  [started EXCEPT ![name] = @ + 1]

\* Context.incremental_name, the string it returns: f'{name}:{count:d}'
incremental_name(cache, name) ==
    <<name, ":">> \o DecStr(incremental_name_cache(cache, name)[name])

\* a variant of add_to_prefix that deep-copies: the copy gets its own bumped
\* name_cache and the caller's is left alone
add_to_prefix_deepcopy(self, appended, count) ==
    LET cache == name_caches[ctxs[self].name_cache]
        text  == IF count THEN incremental_name(cache, appended) ELSE <<appended>>
    IN  [new |-> [ctxs[self] EXCEPT !.global_prefix = @ \o <<"/">> \o text,
                                    !.name_cache = Len(name_caches) + 1],
         name_caches |-> Append(name_caches,
                                IF count THEN incremental_name_cache(cache, appended)
                                ELSE cache)]

\* Context.add_to_prefix: the shallow copy it returns and the name_cache heap
\* after it (the counter is bumped in the dict self.name_cache refers to)
add_to_prefix(self, appended, count) ==
    LET cache == name_caches[ctxs[self].name_cache]
        text  == IF count THEN incremental_name(cache, appended) ELSE <<appended>>
    IN  [new |-> [ctxs[self] EXCEPT !.global_prefix = @ \o <<"/">> \o text],
         name_caches |-> IF count
                         THEN [name_caches EXCEPT ![ctxs[self].name_cache] =
                                   incremental_name_cache(@, appended)]
                         ELSE name_caches]

\* backend.prefixed_name: the prefix of a throw-away uncounted scope
prefixed_name(c, name) == add_to_prefix(c, name, FALSE).new.global_prefix

\* ------------------------------------------------------------------ get_param

\* get_param is called by output_embed_shard
in_output_embed(prefix) == \E i \in DOMAIN prefix : prefix[i] = "output_embed"

\* the symbolic shape each caller declares for the parameter it asks for
str_shape(prefix, name) ==
    IF name = "scale" THEN <<"heads", "one">>
    ELSE IF name = "inp_embd" THEN <<"vocab", "heads", "features_per_head">>
    ELSE IF name = "inp_weight" THEN <<"heads", "features_per_head", "intermediate_replicated">>
    ELSE IF name = "out_weight" THEN <<"intermediate_replicated", "heads", "features_per_head">>
    ELSE IF in_output_embed(prefix) THEN <<"heads", "features_per_head", "vocab">>
    ELSE IF \E i \in DOMAIN prefix : prefix[i] = "full_conv"
         THEN <<"heads", "features_per_head", "features_per_head", "kernel">>
    ELSE <<"heads", "features_per_head", "one", "kernel">>

\* the number of backend.normal calls of one creation: one for a normal
\* parameter (std given: the scales and the embeddings), one per slice of the
\* stacking axis for stacked_orthogonal_init
draw_count(prefix, name) ==
    IF name \in {"scale", "inp_embd"} \/ in_output_embed(prefix) THEN 1 ELSE StackSize

RECURSIVE stacked_draws(_, _)
\* n consecutive backend.normal calls on one context: each splits
\* ctx.prng_key, keeps the first half on the context and samples from the second
stacked_draws(key, n) ==
    IF n = 0 THEN [prng_key |-> key, out |-> <<>>]
    ELSE LET halves == split(key)
             rest   == stacked_draws(halves[1], n - 1)
         IN  [prng_key |-> rest.prng_key, out |-> <<halves[2]>> \o rest.out]

\* get_param's test 'prefix_name not in ctx.parameters'
is_missing(store, prefix_name) == prefix_name \notin DOMAIN store

\* backend.get_param on context c: what it creates, the heaps after it and
\* the value it returns.  The test does not read is_initializing.
get_param(c, name) ==
    LET ctx         == ctxs[c]
        prefix_name == prefixed_name(c, name)
        store       == param_stores[ctx.parameters]
    IN  IF is_missing(store, prefix_name)
        THEN LET drawn == stacked_draws(ctx.prng_key, draw_count(ctx.global_prefix, name))
             IN  [created |-> TRUE,
                  prefix_name |-> prefix_name,
                  prng_key |-> drawn.prng_key,
                  dim_stores |-> [dim_stores EXCEPT ![ctx.parameter_dims] =
                                      Put(@, prefix_name, str_shape(ctx.global_prefix, name))],
                  variance_stores |-> [variance_stores EXCEPT ![ctx.parameter_variance] =
                                           Put(@, prefix_name, 1)],
                  param_stores |-> [param_stores EXCEPT ![ctx.parameters] =
                                        Put(@, prefix_name, drawn.out)],
                  value |-> drawn.out]
        ELSE [created |-> FALSE,
              prefix_name |-> prefix_name,
              prng_key |-> ctx.prng_key,
              dim_stores |-> dim_stores,
              variance_stores |-> variance_stores,
              param_stores |-> param_stores,
              value |-> store[prefix_name]]

\* ------------------------------------------------------------------ a pass

Top == stack[Len(stack)].ctx

\* contexts the current pass has allocated
PassContexts == Len(ctxs) - roots[Len(roots)] + 1

Heap == [ctxs |-> ctxs, name_caches |-> name_caches, param_stores |-> param_stores,
         dim_stores |-> dim_stores, variance_stores |-> variance_stores]

\* the integer suffix at the end of a counted scope's prefix
SuffixOf(parent_prefix, prefix) ==
    ParseDec(SubSeq(prefix, Len(parent_prefix) + 4, Len(prefix)))

\* a function of the forward graph enters a naming scope:
\* ctx = ctx.add_to_prefix(name)
DoEnter(name, kind) ==
    LET r  == add_to_prefix(Top, name, TRUE)
        id == Len(ctxs) + 1
    IN  /\ ctxs' = Append(ctxs, r.new)
        /\ name_caches' = r.name_caches
        /\ stack' = Append(stack, [ctx |-> id, kind |-> kind])
        /\ born' = Append(born, [parent |-> Top, name |-> name,
                                 suffix |-> SuffixOf(ctxs[Top].global_prefix,
                                                     r.new.global_prefix)])
        /\ last' = [op |-> "add_to_prefix", ctx |-> Top, child |-> id,
                    name |-> name, created |-> FALSE, before |-> Heap]
        /\ UNCHANGED <<param_stores, dim_stores, variance_stores, owner, collision>>

\* the function returns: its scope's context goes out of use
DoExit ==
    /\ stack[Len(stack)].kind = "scope"
    /\ stack' = SubSeq(stack, 1, Len(stack) - 1)
    /\ last' = [op |-> "return", ctx |-> Top, child |-> 0,
                name |-> "", created |-> FALSE, before |-> Heap]
    /\ UNCHANGED <<ctxs, name_caches, param_stores, dim_stores, variance_stores,
                   born, owner, collision, src_params>>

\* get_param(ctx, name) on the context of the running function
DoGet(name) ==
    LET r == get_param(Top, name)
    IN  /\ ctxs' = [ctxs EXCEPT ![Top].prng_key = r.prng_key]
        /\ param_stores' = r.param_stores
        /\ dim_stores' = r.dim_stores
        /\ variance_stores' = r.variance_stores
        /\ owner' = IF r.created /\ mode # "run"
                    THEN Put(owner, r.prefix_name, <<Top, name>>) ELSE owner
        /\ collision' = (collision \/ (/\ mode # "run"
                                       /\ ~r.created
                                       /\ owner[r.prefix_name] # <<Top, name>>))
        /\ last' = [op |-> "get_param", ctx |-> Top, child |-> 0,
                    name |-> name, created |-> r.created, before |-> Heap]
        /\ UNCHANGED <<name_caches, stack, born, src_params>>

\* reversible on the initializing path, up to the call of fn:
\* new_ctx = ctx.add_to_prefix("reversible"); new_ctx.parameters = params
DoReversibleEnter ==
    /\ ctxs[Top].is_initializing
    /\ DoEnter("reversible", "reversible")
    /\ UNCHANGED src_params

\* reversible on the initializing path, after fn returned: the caller's
\* parameters, parameter_dims, name_cache and prng_key are taken from new_ctx
DoReversibleExit ==
    /\ stack[Len(stack)].kind = "reversible"
    /\ LET new_ctx == ctxs[Top]
           caller  == stack[Len(stack) - 1].ctx
       IN  /\ ctxs' = [ctxs EXCEPT ![caller].parameters = new_ctx.parameters,
                                   ![caller].parameter_dims = new_ctx.parameter_dims,
                                   ![caller].name_cache = new_ctx.name_cache,
                                   ![caller].prng_key = new_ctx.prng_key]
           /\ src_params' = new_ctx.parameters
    /\ stack' = SubSeq(stack, 1, Len(stack) - 1)
    /\ last' = [op |-> "reversible", ctx |-> stack[Len(stack) - 1].ctx, child |-> Top,
                name |-> "reversible", created |-> FALSE, before |-> Heap]
    /\ UNCHANGED <<name_caches, param_stores, dim_stores, variance_stores,
                   born, owner, collision>>

\* the pass makes one more call; the first initializing pass records it
Log(call) ==
    /\ mode \in {"init", "run"}
    /\ pos < (IF mode = "init" THEN MaxScript ELSE MaxRun)
    /\ pos' = pos + 1
    /\ script' = IF mode = "init" THEN Append(script, call) ELSE script
    /\ UNCHANGED <<mode, roots>>

EnterScope(name) ==
    /\ PassContexts < MaxCtx
    /\ DoEnter(name, "scope")
    /\ UNCHANGED src_params
    /\ Log([op |-> "enter", name |-> name])
    /\ UNCHANGED not_naming

ExitScope ==
    /\ DoExit
    /\ Log([op |-> "exit", name |-> ""])
    /\ UNCHANGED not_naming

GetParam(name) ==
    /\ DoGet(name)
    /\ Log([op |-> "get", name |-> name])
    /\ UNCHANGED not_naming

ReversibleEnter ==
    /\ PassContexts < MaxCtx
    /\ DoReversibleEnter
    /\ Log([op |-> "reversible", name |-> ""])
    /\ UNCHANGED not_naming

ReversibleExit ==
    /\ DoReversibleExit
    /\ Log([op |-> "reversible_return", name |-> ""])
    /\ UNCHANGED not_naming

\* a pass starts on a fresh Context(): its own name_cache, parameters,
\* parameter_dims and parameter_variance dicts
StartPass(initializing) ==
    LET id == Len(ctxs) + 1
    IN  /\ Len(stack) = 1
        /\ script # <<>>
        /\ name_caches' = Append(name_caches, EmptyDict)
        /\ param_stores' = Append(param_stores, EmptyDict)
        /\ dim_stores' = Append(dim_stores, EmptyDict)
        /\ variance_stores' = Append(variance_stores, EmptyDict)
        /\ roots' = Append(roots, id)
        /\ stack' = <<[ctx |-> id, kind |-> "root"]>>
        /\ born' = Append(born, [parent |-> 0, name |-> "", suffix |-> 0])
        /\ pos' = 0
        /\ owner' = EmptyDict
        /\ last' = [op |-> "Context", ctx |-> id, child |-> 0,
                    name |-> "", created |-> FALSE, before |-> Heap]
        /\ UNCHANGED <<script, collision>>

\* main() once more with the same seed: a second initializing pass over the
\* same forward graph
Reinitialize ==
    /\ mode = "init"
    /\ StartPass(TRUE)
    /\ ctxs' = Append(ctxs, Context(Len(name_caches) + 1, Len(param_stores) + 1,
                                    Len(dim_stores) + 1, Len(variance_stores) + 1, TRUE))
    /\ src_params' = Len(param_stores) + 1
    /\ mode' = "reinit"
    /\ UNCHANGED not_naming

\* the second initializing pass makes the calls the first one made
Replay ==
    /\ mode = "reinit"
    /\ pos < Len(script)
    /\ LET call == script[pos + 1]
       IN  \/ call.op = "enter" /\ DoEnter(call.name, "scope") /\ UNCHANGED src_params
           \/ call.op = "exit" /\ DoExit
           \/ call.op = "get" /\ DoGet(call.name)
           \/ call.op = "reversible" /\ DoReversibleEnter
           \/ call.op = "reversible_return" /\ DoReversibleExit
    /\ pos' = pos + 1
    /\ UNCHANGED <<mode, script, roots>>
    /\ UNCHANGED not_naming

\* compute(params, inp): ctx = Context(); ctx.parameters = params, with the
\* parameters the initializing pass left; is_initializing is off
Compute ==
    /\ mode = "init"
    /\ StartPass(FALSE)
    /\ ctxs' = Append(ctxs, [Context(Len(name_caches) + 1, Len(param_stores) + 1,
                                     Len(dim_stores) + 1, Len(variance_stores) + 1, FALSE)
                             EXCEPT !.parameters = ctxs[roots[1]].parameters])
    /\ src_params' = ctxs[roots[1]].parameters
    /\ mode' = "run"
    /\ UNCHANGED not_naming

InitNaming ==
    /\ ctxs = <<Context(1, 1, 1, 1, TRUE)>>
    /\ name_caches = <<EmptyDict>>
    /\ param_stores = <<EmptyDict>>
    /\ dim_stores = <<EmptyDict>>
    /\ variance_stores = <<EmptyDict>>
    /\ stack = <<[ctx |-> 1, kind |-> "root"]>>
    /\ mode = "init"
    /\ script = <<>>
    /\ pos = 0
    /\ roots = <<1>>
    /\ src_params = 1
    /\ born = <<[parent |-> 0, name |-> "", suffix |-> 0]>>
    /\ owner = EmptyDict
    /\ collision = FALSE
    /\ last = [op |-> "Context", ctx |-> 1, child |-> 0, name |-> "",
               created |-> FALSE, before |-> [ctxs |-> <<>>, name_caches |-> <<>>,
               param_stores |-> <<>>, dim_stores |-> <<>>, variance_stores |-> <<>>]]

\* ------------------------------------------------------------------ reversible

\* weights, inputs and output gradients a chain is run on
Weights == {-1, 2}
Activations == {1, 2}
Cotangents == {-1, 1}

\* body_ctx calls reversible twice per layer
BlockCount == rev_depth + rev_depth

\* the key of the parameter block i reads; key 0 is input_embed's, which no
\* block reads
KeyOf(i) == i

\* the flag the top-level model.py passes for block i: (i + 1) == depth, for
\* both blocks of the layer
is_last(i) == (i + 1) \div 2 = rev_depth

relu(x) == IF x > 0 THEN x ELSE 0

\* the sub-computation of block i: linear for the first block of a layer,
\* with an activation for the second
fn(i, params, inp) ==
    IF i % 2 = 1 THEN params[KeyOf(i)] * inp ELSE params[KeyOf(i)] * relu(inp)

\* base(params, inp): fn on a scope whose parameters are params
base(i, params, inp) == fn(i, params, inp)

\* jax.vjp(base, params, y0) followed by grad_fn(dy1): base's value at y0, the
\* gradient for every key of params (zero where fn does not read it) and the
\* gradient for the input
vjp(i, params, y0, dy1) ==
    [out |-> base(i, params, y0),
     d_params |-> [k \in DOMAIN params |->
                       IF k # KeyOf(i) THEN 0
                       ELSE IF i % 2 = 1 THEN dy1 * y0 ELSE dy1 * relu(y0)],
     dx0 |-> IF i % 2 = 1 THEN dy1 * params[KeyOf(i)]
             ELSE IF y0 > 0 THEN dy1 * params[KeyOf(i)] ELSE 0]

\* dict.get(k, 0)
get(d, k) == IF k \in DOMAIN d THEN d[k] ELSE 0

\* a variant of the running path that returns the initializing path's tuple
reversible_init_tuple(i, src) ==
    <<src[1], src[4], src[5], base(i, src[1], src[4]), src[3]>>

\* reversible's _fn, the running path: out = base(params, x1) + x0 and the
\* tuple (params, x1, x1, out, out)
reversible(i, src) ==
    LET out == base(i, src[1], src[4]) + src[2]
    IN  <<src[1], src[4], src[4], out, out>>

\* a variant of _grad that hands y1 back where y0 belongs
grad_swapped(i, params, dy) ==
    LET g == vjp(i, params, dy[3], dy[4])
    IN  <<[k \in DOMAIN g.d_params |-> get(dy[1], k) + get(g.d_params, k)],
          dy[4], dy[5] - g.out, g.dx0 + dy[2], dy[5]>>

\* _grad of model/reversible.py: dy is (d_params_old, dy0, y0, dy1, y1)
grad(i, params, dy) ==
    LET g == vjp(i, params, dy[3], dy[4])
    IN  <<[k \in DOMAIN g.d_params |-> get(dy[1], k) + get(g.d_params, k)],
          dy[4], dy[5] - g.out, g.dx0 + dy[2], dy[3]>>

\* reversible_backward of the top-level model.py: inp is the residual, the
\* tuple the block returned; the last layer's blocks take y0 and y1 from it
\* and return their own parameter gradients alone
reversible_backward(i, inp, dy) ==
    LET y1 == IF is_last(i) THEN inp[4] ELSE dy[5]
        y0 == IF is_last(i) THEN inp[2] ELSE dy[3]
        g  == vjp(i, inp[1], y0, dy[4])
    IN  <<IF is_last(i) THEN g.d_params
          ELSE [k \in DOMAIN g.d_params |-> dy[1][k] + g.d_params[k]],
          dy[4], y1 - g.out, g.dx0 + dy[2], y0>>

\* a variant of revnet_out's _grad with the two backup values crossed
revnet_out_crossed(src, dy) == <<dy, src[4], dy, src[2]>>

\* revnet_out's _grad on (x0, x0_back, x1, x1_back): (dy, x0, dy, x1); src is
\* the whole tuple, params first
revnet_out_grad(src, dy) == <<dy, src[2], dy, src[4]>>

\* the forward value of revnet_out, and of src[1] + src[3] in model.py
revnet_out(src) == src[2] + src[4]

Zeros(params) == [k \in DOMAIN params |-> 0]

\* one block of body_ctx's loop on the running path
ReversibleForward ==
    /\ rev_pc = "forward"
    /\ rev_inputs' = Append(rev_inputs, rev_src)
    /\ rev_src' = reversible(rev_i, rev_src)
    /\ rev_outputs' = Append(rev_outputs, reversible(rev_i, rev_src))
    /\ rev_i' = rev_i + 1
    /\ rev_pc' = IF rev_i = BlockCount THEN "out" ELSE "forward"
    /\ UNCHANGED <<rev_variant, rev_depth, rev_params, rev_cotangent, rev_result,
                   rev_dy, rev_dy_in, rev_contrib>>
    /\ UNCHANGED not_reversible

\* the end of body_ctx and the start of the backward pass: the rails are
\* summed, and the gradient tuple of the last block is what revnet_out's
\* _grad returns (zeros for the unused params output), or for model.py's
\* src[1] + src[3] the output gradient on the rails and zeros elsewhere
RevnetOut ==
    /\ rev_pc = "out"
    /\ rev_result' = revnet_out(rev_src)
    /\ rev_dy' = IF rev_variant = "custom_gradient"
                 THEN <<Zeros(rev_params)>> \o revnet_out_grad(rev_src, rev_cotangent)
                 ELSE <<Zeros(rev_params), rev_cotangent, 0, rev_cotangent, 0>>
    /\ rev_i' = BlockCount
    /\ rev_pc' = "backward"
    /\ UNCHANGED <<rev_variant, rev_depth, rev_params, rev_cotangent, rev_src,
                   rev_inputs, rev_outputs, rev_dy_in, rev_contrib>>
    /\ UNCHANGED not_reversible

\* the backward rule of one block, the blocks taken in reverse order
ReversibleBackward ==
    /\ rev_pc = "backward"
    /\ rev_dy' = IF rev_variant = "custom_gradient"
                 THEN grad(rev_i, rev_params, rev_dy)
                 ELSE reversible_backward(rev_i, rev_outputs[rev_i], rev_dy)
    /\ rev_dy_in' = rev_dy
    /\ rev_contrib' =
           LET y0 == IF rev_variant = "custom_vjp" /\ is_last(rev_i)
                     THEN rev_outputs[rev_i][2] ELSE rev_dy[3]
               own == vjp(rev_i, rev_params, y0, rev_dy[4]).d_params
           IN  [k \in DOMAIN rev_contrib |-> rev_contrib[k] + own[k]]
    /\ rev_i' = rev_i - 1
    /\ rev_pc' = IF rev_i = 1 THEN "done" ELSE "backward"
    /\ UNCHANGED <<rev_variant, rev_depth, rev_params, rev_cotangent, rev_src,
                   rev_inputs, rev_outputs, rev_result>>
    /\ UNCHANGED not_reversible

\* a chain ready to run: body_ctx's tuple (params, src, zero, src, zero)
InitReversible ==
    /\ rev_variant \in {"custom_gradient", "custom_vjp"}
    /\ rev_depth \in 1..MaxDepth
    /\ rev_params \in [0..(rev_depth + rev_depth) -> Weights]
    /\ rev_cotangent \in Cotangents
    /\ \E x \in Activations : rev_src = <<rev_params, x, 0, x, 0>>
    /\ rev_pc = "forward"
    /\ rev_i = 1
    /\ rev_inputs = <<>>
    /\ rev_outputs = <<>>
    /\ rev_result = 0
    /\ rev_dy = <<>>
    /\ rev_dy_in = <<>>
    /\ rev_contrib = Zeros(rev_params)

\* no chain is run
IdleReversible ==
    /\ rev_variant = "custom_gradient"
    /\ rev_depth = 0
    /\ rev_params = EmptyDict
    /\ rev_cotangent = 0
    /\ rev_src = <<>>
    /\ rev_pc = "idle"
    /\ rev_i = 0
    /\ rev_inputs = <<>>
    /\ rev_outputs = <<>>
    /\ rev_result = 0
    /\ rev_dy = <<>>
    /\ rev_dy_in = <<>>
    /\ rev_contrib = EmptyDict

\* ------------------------------------------------------------------ checkpoint writer

UPLOAD_RETRIES == 8

\* the write calls a writer makes, in order: write_checkpoint uploads
\* parameters and variance for every shard; write_train_checkpoint calls
\* write_checkpoint and then uploads loss, accuracy and current_step for
\* every shard
RECURSIVE PerShard(_, _, _)
PerShard(shard, shards, suffixes) ==
    IF shard > shards THEN <<>>
    ELSE [k \in 1..Len(suffixes) |-> <<shard, suffixes[k]>>]
             \o PerShard(shard + 1, shards, suffixes)

write_checkpoint_calls(shards) == PerShard(1, shards, <<"parameters", "variance">>)

write_train_checkpoint_calls(shards) ==
    write_checkpoint_calls(shards)
        \o PerShard(1, shards, <<"loss", "accuracy", "current_step">>)

Calls == IF ck_entry = "write_train_checkpoint"
         THEN write_train_checkpoint_calls(ck_shards)
         ELSE write_checkpoint_calls(ck_shards)

\* a variant of the retry loops' bound that allows one attempt more
retries_left_inclusive(attempt) == attempt <= UPLOAD_RETRIES

\* 'for _ in range(UPLOAD_RETRIES)': another iteration is left
retries_left(attempt) == attempt < UPLOAD_RETRIES

\* where a writer goes when a write call returned
AfterCall(job) == IF job = Len(Calls) THEN "done" ELSE "write"

\* write_checkpoint's loop for structure.json, an attempt that fails: the
\* loop continues, and raises ValueError once its iterations are used up
StructureAttemptFails ==
    /\ ck_pc = "structure"
    /\ retries_left(ck_attempt)
    /\ ck_attempt' = ck_attempt + 1
    /\ ck_pc' = IF retries_left(ck_attempt + 1) THEN "structure" ELSE "structure_failed"
    /\ ck_last' = [file |-> <<0, "structure">>, attempt |-> ck_attempt + 1, saved |-> FALSE]
    /\ UNCHANGED <<ck_entry, ck_is_main, ck_shards, ck_job, ck_uploaded>>
    /\ UNCHANGED not_checkpoint

\* write_checkpoint's loop for structure.json, an attempt that succeeds
StructureAttemptSucceeds ==
    /\ ck_pc = "structure"
    /\ retries_left(ck_attempt)
    /\ ck_uploaded' = ck_uploaded \cup {<<0, "structure">>}
    /\ ck_attempt' = 0
    /\ ck_pc' = "write"
    /\ ck_last' = [file |-> <<0, "structure">>, attempt |-> ck_attempt + 1, saved |-> TRUE]
    /\ UNCHANGED <<ck_entry, ck_is_main, ck_shards, ck_job>>
    /\ UNCHANGED not_checkpoint

\* checkpoint.write, an attempt that fails: the exception is swallowed and
\* the loop goes on; after the last iteration write raises, and the
\* exception leaves the writer
WriteAttemptFails ==
    /\ ck_pc = "write"
    /\ retries_left(ck_attempt)
    /\ ck_attempt' = ck_attempt + 1
    /\ ck_pc' = IF retries_left(ck_attempt + 1) THEN "write" ELSE "failed"
    /\ ck_last' = [file |-> Calls[ck_job], attempt |-> ck_attempt + 1, saved |-> FALSE]
    /\ UNCHANGED <<ck_entry, ck_is_main, ck_shards, ck_job, ck_uploaded>>
    /\ UNCHANGED not_checkpoint

\* checkpoint.write, an attempt that succeeds: write returns and the writer
\* goes on to its next call
WriteAttemptSucceeds ==
    /\ ck_pc = "write"
    /\ retries_left(ck_attempt)
    /\ ck_uploaded' = ck_uploaded \cup {Calls[ck_job]}
    /\ ck_attempt' = 0
    /\ ck_job' = IF ck_job = Len(Calls) THEN ck_job ELSE ck_job + 1
    /\ ck_pc' = AfterCall(ck_job)
    /\ ck_last' = [file |-> Calls[ck_job], attempt |-> ck_attempt + 1, saved |-> TRUE]
    /\ UNCHANGED <<ck_entry, ck_is_main, ck_shards>>
    /\ UNCHANGED not_checkpoint

\* a writer is called on a context whose checkpoint path holds nothing yet
InitCheckpoint ==
    /\ ck_entry \in {"write_checkpoint", "write_train_checkpoint"}
    /\ ck_is_main \in BOOLEAN
    /\ ck_shards \in 1..MaxShards
    /\ ck_pc = IF ck_is_main THEN "structure" ELSE "write"
    /\ ck_job = 1
    /\ ck_attempt = 0
    /\ ck_uploaded = {}
    /\ ck_last = [file |-> <<0, "">>, attempt |-> 0, saved |-> FALSE]

\* no checkpoint is written
IdleCheckpoint ==
    /\ ck_entry = "write_checkpoint"
    /\ ck_is_main = FALSE
    /\ ck_shards = 0
    /\ ck_pc = "idle"
    /\ ck_job = 0
    /\ ck_attempt = 0
    /\ ck_uploaded = {}
    /\ ck_last = [file |-> <<0, "">>, attempt |-> 0, saved |-> FALSE]

\* ------------------------------------------------------------------ checkpoint reader

\* ord(c) of the characters the parameter names are made of; "optimizer" and
\* "w" stand for words, ordered by their first letter
TokenCode(t) ==
    CASE t = "/" -> 47 [] t = ":" -> 58 [] t = "optimizer" -> 111 [] t = "w" -> 119
      [] OTHER -> 48 + DigitValue(t)

RECURSIVE str_less(_, _)
\* a < b on Python strings
str_less(a, b) ==
    IF a = <<>> THEN b # <<>>
    ELSE IF b = <<>> THEN FALSE
    ELSE IF Head(a) # Head(b) THEN TokenCode(Head(a)) < TokenCode(Head(b))
    ELSE str_less(Tail(a), Tail(b))

\* the keys of a dict in the order jax.tree_util.tree_flatten visits them
sorted_keys(d) ==
    [r \in 1..Cardinality(DOMAIN d) |->
        CHOOSE k \in DOMAIN d : Cardinality({o \in DOMAIN d : str_less(o, k)}) = r - 1]

\* jax.tree_util.tree_flatten of a flat dict: its leaves and its structure
tree_flatten(d) ==
    [flattened |-> [r \in 1..Cardinality(DOMAIN d) |-> d[sorted_keys(d)[r]]],
     structure |-> sorted_keys(d)]

\* the name of a parameter: "/w:j", and for j = 2 an optimizer buffer
ParameterName(j) ==
    IF j = 2 THEN <<"/", "optimizer", "/", "w", ":", "0">>
    ELSE <<"/", "w", ":">> \o DecStr(j)

\* re.compile('.*optimizer.*').match(key)
ignore_match(key) == \E i \in 1..Len(key) : key[i] = "optimizer"

\* optimizer buffers are kept in bfloat16, parameters in the storage dtype
DtypeOf(key) == IF ignore_match(key) THEN "bfloat16" ELSE "float32"

\* device_ids() on one host: the local shards, counted from 1 here
device_ids(count) == [i \in 1..count |-> i]

\* index_weights: the slice of every tensor that belongs to one shard
index_weights(weights, idx) ==
    [k \in 1..Len(weights) |-> [dtype |-> weights[k].dtype, data |-> weights[k].data[idx]]]

\* np.savez stores a bfloat16 array as raw two-byte values
saved_dtype(dtype) == IF dtype = "bfloat16" THEN "V2" ELSE dtype

\* checkpoint.write: the archive np.savez writes, tensor idx under str(idx)
write(weights) ==
    {[name |-> DecStr(k - 1),
      tensor |-> [dtype |-> saved_dtype(weights[k].dtype), data |-> weights[k].data]]
        : k \in 1..Len(weights)}

\* the files a write_checkpoint that succeeds leaves in storage
write_checkpoint(parameters, parameter_variance, shards) ==
    LET flat == tree_flatten(parameters)
        variance == tree_flatten(parameter_variance).flattened
        ids == device_ids(shards)
        paths == {<<0, "structure">>}
                     \cup {<<ids[i], suffix>> : i \in 1..shards,
                                                suffix \in {"parameters", "variance"}}
    IN  [p \in paths |->
            IF p[2] = "structure" THEN flat.structure
            ELSE IF p[2] = "parameters" THEN write(index_weights(flat.flattened, p[1]))
            ELSE write(index_weights(variance, p[1]))]

\* a variant of read_shard that sorts the archive's entries by name
read_shard_sorted_by_name(archive) ==
    [r \in 1..Cardinality(archive) |->
        (CHOOSE it \in archive :
            Cardinality({o \in archive : str_less(o.name, it.name)}) = r - 1).tensor]

\* read_shard: the archive's tensors sorted by int(name)
read_shard(archive) ==
    [r \in 1..Cardinality(archive) |->
        (CHOOSE it \in archive :
            Cardinality({o \in archive : ParseDec(o.name) < ParseDec(it.name)}) = r - 1).tensor]

\* the length zip(*shards) stops at
ShortestLen(shards) ==
    IF Len(shards) = 0 THEN 0
    ELSE CHOOSE n \in {Len(shards[i]) : i \in 1..Len(shards)} :
            \A i \in 1..Len(shards) : n <= Len(shards[i])

\* unshard: np.stack of every tensor's slices, in the order of shards, with
\* raw two-byte values viewed as bfloat16
unshard(shards) ==
    [k \in 1..ShortestLen(shards) |->
        [dtype |-> IF shards[1][k].dtype = "V2" THEN "bfloat16" ELSE shards[1][k].dtype,
         data |-> [i \in 1..Len(shards) |-> shards[i][k].data]]]

\* PyTreeDef.unflatten: accepts exactly as many leaves as the structure has
unflatten_accepts(structure, leaves) == Len(leaves) = Len(structure)

\* PyTreeDef.unflatten of the structure read_checkpoint rebuilds from
\* structure.json: the k-th leaf under the k-th key in sorted order
unflatten(structure, leaves) ==
    LET keys == {structure[r] : r \in 1..Len(structure)}
    IN  [k \in keys |-> leaves[Cardinality({o \in keys : str_less(o, k)}) + 1]]

\* a variant of _overwrite that also imports the keys only the checkpoint has
overwrite_union(new, old) ==
    [k \in DOMAIN old \cup DOMAIN new |-> IF k \in DOMAIN new THEN new[k] ELSE old[k]]

\* _overwrite: the live mapping after the merge
overwrite(new, old) ==
    IF DOMAIN old = {} THEN new
    ELSE [k \in DOMAIN old |-> IF k \in DOMAIN new THEN new[k] ELSE old[k]]

\* _overwrite's two diagnostic lists, the only use it makes of ignore
printed(new, old) ==
    IF DOMAIN old = {} THEN [unknown |-> {}, unfilled |-> {}]
    ELSE [unknown |-> {p \in DOMAIN new : p \notin DOMAIN old /\ ~ignore_match(p)},
          unfilled |-> {p \in DOMAIN old : p \notin DOMAIN new /\ ~ignore_match(p)}]

\* a parameter mapping of count tensors whose leading axis runs over shards
\* devices; a sharded tensor differs from device to device
ParametersOf(count, sharded, shards) ==
    [k \in {ParameterName(j) : j \in 1..count} |->
        LET j == CHOOSE j \in 1..count : ParameterName(j) = k
        IN  [dtype |-> DtypeOf(k),
             data |-> [s \in 1..shards |-> IF sharded THEN 10 * j + s ELSE 10 * j]]]

\* the names a model may hold before it loads: a parameter and an optimizer
\* buffer the checkpoint may have, and a parameter no checkpoint has
LiveNames == {ParameterName(1), ParameterName(2), <<"/", "w">>}

\* the live mapping of a model that holds the given names, freshly initialized
LiveOf(names, shards) ==
    [k \in names |-> [dtype |-> DtypeOf(k), data |-> [s \in 1..shards |-> 0 - 1]]]

\* the learning-rate scales of a mapping, of the same structure
VarianceOf(parameters) ==
    [k \in DOMAIN parameters |->
        [dtype |-> "float32", data |-> [s \in 1..Len(parameters[k].data) |-> 1]]]

\* a variant of the pool's readiness test that is satisfied by the first error
map_ready_on_first_error(task) ==
    \/ \A i \in 1..Len(task) : task[i] \in {"done", "raised"}
    \/ \E i \in 1..Len(task) : task[i] = "raised"

\* p.map returns or raises once every task of the job has finished
map_ready(task) == \A i \in 1..Len(task) : task[i] \in {"done", "raised"}

\* a variant of the pool's result list filled in the order tasks finish
set_result_by_arrival(value, i, finished, result) ==
    [value EXCEPT ![finished + 1] = result]

\* p.map's result list: the result of the i-th task is its i-th element
set_result(value, i, finished, result) == [value EXCEPT ![i] = result]

\* the path of one shard's archive
ShardPath(shard, suffix) == <<shard, suffix>>

\* write_checkpoint on the main process, every upload succeeding
WriteCheckpoint ==
    /\ rd_pc = "write"
    /\ rd_storage' = write_checkpoint(rd_params, VarianceOf(rd_params), rd_wshards)
    /\ rd_pc' = "read"
    /\ UNCHANGED <<rd_params, rd_wshards, rd_shards, rd_live, rd_live0, rd_structure,
                   rd_task, rd_value, rd_order, rd_new, rd_printed>>
    /\ UNCHANGED not_reader

\* read_checkpoint up to p.map: structure.json is read, and _read_shards
\* hands one read_shard task per local shard to a pool of as many threads
ReadCheckpoint ==
    /\ rd_pc = "read"
    /\ rd_structure' = rd_storage[<<0, "structure">>]
    /\ rd_task' = [i \in 1..rd_shards |-> "queued"]
    /\ rd_value' = [i \in 1..rd_shards |-> <<>>]
    /\ rd_pc' = "map"
    /\ UNCHANGED <<rd_params, rd_wshards, rd_shards, rd_storage, rd_live, rd_live0,
                   rd_order, rd_new, rd_printed>>
    /\ UNCHANGED not_reader

\* a pool thread takes a task
TaskStarts(i) ==
    /\ rd_pc = "map"
    /\ i \in DOMAIN rd_task
    /\ rd_task[i] = "queued"
    /\ rd_task' = [rd_task EXCEPT ![i] = "running"]
    /\ UNCHANGED <<rd_params, rd_wshards, rd_shards, rd_storage, rd_live, rd_live0,
                   rd_structure, rd_pc, rd_value, rd_order, rd_new, rd_printed>>
    /\ UNCHANGED not_reader

\* read_shard returns: the archive exists and was read
TaskReturns(i) ==
    /\ i \in DOMAIN rd_task
    /\ rd_task[i] = "running"
    /\ ShardPath(device_ids(rd_shards)[i], "parameters") \in DOMAIN rd_storage
    /\ rd_task' = [rd_task EXCEPT ![i] = "done"]
    /\ rd_value' = set_result(rd_value, i, Len(rd_order),
                       read_shard(rd_storage[ShardPath(device_ids(rd_shards)[i], "parameters")]))
    /\ rd_order' = Append(rd_order, i)
    /\ UNCHANGED <<rd_params, rd_wshards, rd_shards, rd_storage, rd_live, rd_live0,
                   rd_structure, rd_pc, rd_new, rd_printed>>
    /\ UNCHANGED not_reader

\* read_shard raises: the archive is missing, or the download failed
TaskRaises(i) ==
    /\ i \in DOMAIN rd_task
    /\ rd_task[i] = "running"
    /\ rd_task' = [rd_task EXCEPT ![i] = "raised"]
    /\ rd_order' = Append(rd_order, i)
    /\ UNCHANGED <<rd_params, rd_wshards, rd_shards, rd_storage, rd_live, rd_live0,
                   rd_structure, rd_pc, rd_value, rd_new, rd_printed>>
    /\ UNCHANGED not_reader

\* p.map returns the results; _read_shards re-stacks and unflattens them, and
\* read_checkpoint merges the mapping into ctx.parameters
MapReturns ==
    /\ rd_pc = "map"
    /\ map_ready(rd_task)
    /\ \A i \in 1..Len(rd_task) : rd_task[i] # "raised"
    /\ LET leaves == unshard(rd_value)
       IN  IF unflatten_accepts(rd_structure, leaves)
           THEN LET new == unflatten(rd_structure, leaves)
                IN  /\ rd_new' = new
                    /\ rd_printed' = printed(new, rd_live)
                    /\ rd_live' = overwrite(new, rd_live)
                    /\ rd_pc' = "returned"
           ELSE /\ rd_pc' = "unflatten_raised"
                /\ UNCHANGED <<rd_new, rd_printed, rd_live>>
    /\ UNCHANGED <<rd_params, rd_wshards, rd_shards, rd_storage, rd_live0, rd_structure,
                   rd_task, rd_value, rd_order>>
    /\ UNCHANGED not_reader

\* p.map re-raises the first exception of a task; it leaves _read_shards and
\* read_checkpoint
MapRaises ==
    /\ rd_pc = "map"
    /\ map_ready(rd_task)
    /\ \E i \in 1..Len(rd_task) : rd_task[i] = "raised"
    /\ rd_pc' = "raised"
    /\ UNCHANGED <<rd_params, rd_wshards, rd_shards, rd_storage, rd_live, rd_live0,
                   rd_structure, rd_task, rd_value, rd_order, rd_new, rd_printed>>
    /\ UNCHANGED not_reader

\* a run with rd_wshards devices is about to write its parameters, and a run
\* with rd_shards devices will load them into its own mapping
InitRead ==
    /\ rd_wshards \in 1..MaxShards
    /\ rd_shards \in 1..MaxShards
    /\ rd_params \in {ParametersOf(count, sharded, rd_wshards) :
                          count \in 0..MaxTensors, sharded \in BOOLEAN}
    /\ rd_live \in {LiveOf(names, rd_shards) : names \in SUBSET LiveNames}
    /\ rd_live0 = rd_live
    /\ rd_storage = EmptyDict
    /\ rd_structure = <<>>
    /\ rd_pc = "write"
    /\ rd_task = <<>>
    /\ rd_value = <<>>
    /\ rd_order = <<>>
    /\ rd_new = EmptyDict
    /\ rd_printed = [unknown |-> {}, unfilled |-> {}]

\* no checkpoint is read
IdleRead ==
    /\ rd_wshards = 0
    /\ rd_shards = 0
    /\ rd_params = EmptyDict
    /\ rd_live = EmptyDict
    /\ rd_live0 = EmptyDict
    /\ rd_storage = EmptyDict
    /\ rd_structure = <<>>
    /\ rd_pc = "idle"
    /\ rd_task = <<>>
    /\ rd_value = <<>>
    /\ rd_order = <<>>
    /\ rd_new = EmptyDict
    /\ rd_printed = [unknown |-> {}, unfilled |-> {}]

\* ------------------------------------------------------------------ optimizer

\* Real numbers are exact: a tensor entry is an integer number of units of
\* 0.0005, a factor is a fraction num/den with den > 0, and a norm is kept
\* as its square, so that no root has to be taken.

Rat(n, d) == [num |-> n, den |-> d]
RatMul(a, b) == Rat(a.num * b.num, a.den * b.den)
RatLeq(a, b) == a.num * b.den <= b.num * a.den
RatOnePlus(a) == Rat(a.den + a.num, a.den)
RatNeg(a) == Rat(0 - a.num, a.den)

RECURSIVE Pow(_, _)
Pow(a, n) == IF n = 0 THEN Rat(1, 1) ELSE RatMul(a, Pow(a, n - 1))

\* the 1e-3 below which adaptive_gradient_clipping does not let a weight
\* norm fall, in units
MIN_WEIGHT_NORM == 2

\* str.lower() on the words of a name
lower(name) ==
    [i \in 1..Len(name) |->
        CASE name[i] = "Norm" -> "norm" [] name[i] = "ReZero" -> "rezero"
          [] OTHER -> name[i]]

\* word in name, on names made of whole words
contains(name, word) ==
    \E i \in 1..Len(name) :
        name[i] = word \/ (name[i] = "normalization" /\ word = "norm")

\* is_stacked: the name carries the marker of a parameter stacked along its
\* leading axis
is_stacked(param_name) == contains(param_name, "stacked")

\* small_parameter, of a gradient of ndim axes
small_parameter(param_name, ndim) ==
    \/ contains(lower(param_name), "norm")
    \/ contains(lower(param_name), "rezero")
    \/ ndim < 2 + (IF is_stacked(param_name) THEN 1 ELSE 0)

RECURSIVE SumSquares(_)
\* lax.square(val).sum() of a flattened tensor
SumSquares(entries) ==
    IF entries = <<>> THEN 0
    ELSE Head(entries) * Head(entries) + SumSquares(Tail(entries))

RECURSIVE Flattened(_)
Flattened(val) == IF val = <<>> THEN <<>> ELSE Head(val) \o Flattened(Tail(val))

\* optimizer.norm: the sum of squares, one per slice of the leading axis for
\* a stacked parameter, else of the whole tensor (a single entry, broadcast)
norm(param_name, val) ==
    IF is_stacked(param_name) THEN [i \in 1..Len(val) |-> SumSquares(val[i])]
    ELSE <<SumSquares(Flattened(val))>>

\* clip_norm, squared: max(sqrt(norm), min_norm)^2
clip_norm(param_name, val, min_norm) ==
    LET n == norm(param_name, val)
    IN  [i \in 1..Len(n) |-> IF n[i] >= min_norm * min_norm THEN n[i]
                             ELSE min_norm * min_norm]

\* a variant of adaptive_gradient_clipping that divides the gradient's norm
\* by the weight's
adaptive_gradient_clipping_inverted(param_name, gradient, weight, gradient_clip, epsilon) ==
    LET grd_norm == clip_norm(param_name, gradient, epsilon)
        wgt_norm == clip_norm(param_name, weight, MIN_WEIGHT_NORM)
    IN  [op |-> "scaled", of |-> gradient,
         scale |-> [i \in 1..Len(grd_norm) |->
             LET ratio == Rat(grd_norm[i] * gradient_clip.num * gradient_clip.num,
                              wgt_norm[i] * gradient_clip.den * gradient_clip.den)
             IN  IF RatLeq(ratio, Rat(1, 1)) THEN ratio ELSE Rat(1, 1)]]

\* adaptive_gradient_clipping: grad * grad_scale, kept as the gradient and
\* the square of grad_scale (one per slice or one for the tensor)
adaptive_gradient_clipping(param_name, gradient, weight, gradient_clip, epsilon) ==
    LET grd_norm == clip_norm(param_name, gradient, epsilon)
        wgt_norm == clip_norm(param_name, weight, MIN_WEIGHT_NORM)
    IN  [op |-> "scaled", of |-> gradient,
         scale |-> [i \in 1..Len(grd_norm) |->
             LET ratio == Rat(wgt_norm[i] * gradient_clip.num * gradient_clip.num,
                              grd_norm[i] * gradient_clip.den * gradient_clip.den)
             IN  IF RatLeq(ratio, Rat(1, 1)) THEN ratio ELSE Rat(1, 1)]]

\* the configuration of the optimizer: ctx.optimizer
OptimizerConfig ==
    [learning_rate |-> Rat(1, 1000), warmup_end |-> 2, exponential_decay |-> Rat(1, 2),
     weight_decay |-> Rat(1, 10), epsilon |-> 1,
     gradient_clip |-> Rat(1, 2)]

\* get_current_lr
get_current_lr(opt, step) ==
    LET warmed == RatMul(opt.learning_rate,
                         Rat(IF step <= opt.warmup_end THEN step ELSE opt.warmup_end,
                             opt.warmup_end))
        keep == Rat(opt.exponential_decay.den - opt.exponential_decay.num,
                    opt.exponential_decay.den)
    IN  RatMul(warmed, Pow(keep, IF step > 0 THEN step ELSE 0))

\* the names update gives the state of one parameter's optimizer
buffer_name(param_name, scope, name) ==
    <<"/", "optimizer", ":", "0", "/">> \o param_name \o <<"/", scope, "/", name>>

\* the optimizer state update keeps for one parameter: the buffers of adam's
\* two moving averages and, unless the parameter is small, shampoo's
\* statistics and preconditioner and the momentum of its update
buffers(param_name, ndim) ==
    {buffer_name(param_name, "adam", "momentum_buffer"),
     buffer_name(param_name, "square_ema", "momentum_buffer")}
        \cup IF small_parameter(param_name, ndim) THEN {}
             ELSE {buffer_name(param_name, "shampoo", "momentum_buffer"),
                   buffer_name(param_name, "shampoo", "preconditioner"),
                   buffer_name(param_name, "ema", "momentum_buffer")}

\* a variant of update's loop body that decays every weight, small or not
new_weight_always_decayed(parameters, variance, param_name, gradient, step, opt) ==
    LET parameter_lr == RatMul(RatNeg(get_current_lr(opt, step)),
                               IF param_name \in DOMAIN variance THEN variance[param_name]
                               ELSE Rat(1, 1))
        clipped == adaptive_gradient_clipping(param_name, gradient.data,
                       parameters[param_name].data, opt.gradient_clip, opt.epsilon)
        adam == [op |-> "adam", of |-> clipped]
    IN  [op |-> "plus",
         update |-> IF small_parameter(param_name, gradient.ndim) THEN adam
                    ELSE [op |-> "graft", magnitude |-> adam,
                          direction |-> [op |-> "ema",
                              of |-> [op |-> "shampoo", of |-> clipped,
                                      per_slice |-> is_stacked(param_name)]]],
         lr |-> parameter_lr,
         weight |-> [op |-> "times",
                     factor |-> RatOnePlus(RatMul(opt.weight_decay, parameter_lr)),
                     of |-> parameters[param_name]]]

\* update's loop body: the value ctx.parameters[param_name] is left with.
\* adam, shampoo, ema and graft are kept as terms over their arguments
new_weight(parameters, variance, param_name, gradient, step, opt) ==
    LET parameter_lr == RatMul(RatNeg(get_current_lr(opt, step)),
                               IF param_name \in DOMAIN variance THEN variance[param_name]
                               ELSE Rat(1, 1))
        clipped == adaptive_gradient_clipping(param_name, gradient.data,
                       parameters[param_name].data, opt.gradient_clip, opt.epsilon)
        adam == [op |-> "adam", of |-> clipped]
    IN  IF small_parameter(param_name, gradient.ndim)
        THEN [op |-> "plus", update |-> adam, lr |-> parameter_lr,
              weight |-> parameters[param_name]]
        ELSE [op |-> "plus",
              update |-> [op |-> "graft", magnitude |-> adam,
                          direction |-> [op |-> "ema",
                              of |-> [op |-> "shampoo", of |-> clipped,
                                      per_slice |-> is_stacked(param_name)]]],
              lr |-> parameter_lr,
              weight |-> [op |-> "times",
                          factor |-> RatOnePlus(RatMul(opt.weight_decay, parameter_lr)),
                          of |-> parameters[param_name]]]

\* optimizer.update: ctx.parameters after the loop over grads
update(parameters, variance, grads, step, opt) ==
    LET names == {n \in DOMAIN grads : ~contains(n, "optimizer")}
        state == UNION {buffers(n, grads[n].ndim) : n \in names}
    IN  [k \in DOMAIN parameters \cup state |->
            IF k \in names
            THEN new_weight(parameters, variance, k, grads[k], step, opt)
            ELSE IF k \in state THEN [op |-> "state"]
            ELSE parameters[k]]

\* the names of the parameters a model may hold
OptimizedNames ==
    {<<"/", "w">>,
     <<"/", "normalization", ":", "0", "/", "w">>,
     <<"/", "ReZero", ":", "0", "/", "w">>,
     <<"/", "w", "stacked">>,
     <<"/", "optimizer", ":", "0", "/", "w">>}

\* the slices a tensor of ndim axes may have along its leading axis,
\* flattened: of norm 0, 1 and 5 units
SliceValues(ndim) ==
    IF ndim = 1 THEN {<<0>>, <<1>>, <<5>>} ELSE {<<0, 0>>, <<1, 0>>, <<3, 4>>}

\* the tensors of ndim axes
Tensors(ndim) ==
    {[op |-> "tensor", ndim |-> ndim, data |-> d] : d \in [1..StackSize -> SliceValues(ndim)]}

\* update is called on the gradients of ctx.parameters
Update ==
    /\ opt_pc = "ready"
    /\ opt_parameters' = update(opt_parameters, opt_variance, opt_grads, opt_step, opt_config)
    /\ opt_pc' = "updated"
    /\ UNCHANGED <<opt_variance, opt_grads, opt_step, opt_config>>
    /\ UNCHANGED not_optimizer

\* a model of one parameter and the gradient of a training step
InitOptimizer ==
    /\ \E name \in OptimizedNames, ndim \in 1..MaxRank :
          /\ opt_parameters \in {[k \in {name} |-> t] : t \in Tensors(ndim)}
          /\ opt_grads \in {[k \in {name} |-> t] : t \in Tensors(ndim)}
          /\ opt_variance \in {EmptyDict, [k \in {name} |-> Rat(2, 1)]}
    /\ opt_step \in 0..MaxStep
    /\ opt_config \in {[OptimizerConfig EXCEPT !.gradient_clip = c] : c \in {Rat(1, 2), Rat(2, 1)}}
    /\ opt_pc = "ready"

\* no optimizer step is made
IdleOptimizer ==
    /\ opt_parameters = EmptyDict
    /\ opt_grads = EmptyDict
    /\ opt_variance = EmptyDict
    /\ opt_step = 0
    /\ opt_config = OptimizerConfig
    /\ opt_pc = "idle"

\* ------------------------------------------------------------------ the forward graph

\* the naming calls of the functions body_ctx runs, in order
E(name) == [op |-> "enter", name |-> name]
G(name) == [op |-> "get", name |-> name]
X == [op |-> "exit", name |-> ""]

\* normalize: ctx.add_to_prefix("normalization"), get_param "scale"
normalize_calls == <<E("normalization"), G("scale"), X>>

input_embed_calls == <<E("input_embed"), G("inp_embd")>> \o normalize_calls \o <<X>>

conv_block_calls ==
    <<E("group_convolution")>> \o normalize_calls
        \o <<E("depthwise_conv"), G("weight"), X>> \o normalize_calls
        \o <<E("full_conv"), G("weight"), X, X>>

feed_forward_calls ==
    <<E("feed_forward"), G("inp_weight"), G("out_weight")>>
        \o normalize_calls \o normalize_calls \o <<X>>

output_embed_shard_calls == <<E("output_embed"), G("weight"), X>>

\* the blocks of body_ctx: 0 is input_embed, then conv_block and
\* feed_forward for every layer, each wrapped in reversible, then
\* output_embed_shard
LastBlock == blk_depth + blk_depth + 1

Wrapped(b) == b >= 1 /\ b < LastBlock

CallsOf(b) ==
    IF b = 0 THEN input_embed_calls
    ELSE IF b = LastBlock THEN output_embed_shard_calls
    ELSE IF b % 2 = 1 THEN conv_block_calls
    ELSE feed_forward_calls

\* where body_ctx is: the pass, the block, the place in it and the calls its
\* function has made
At(pass, phase, block, place) ==
    [pass |-> pass, phase |-> phase, block |-> block, at |-> place, ip |-> 0]

\* where body_ctx goes when a block has returned
AfterBlock(pc) ==
    IF pc.phase = "backward" THEN At("run", "backward", 0, "choose")
    ELSE IF pc.block = LastBlock
         THEN (IF pc.pass = "init" THEN At("init", "forward", pc.block, "end")
               ELSE At("run", "backward", 0, "choose"))
    ELSE IF pc.block + 1 = LastBlock THEN At(pc.pass, "forward", LastBlock, "assign")
    ELSE At(pc.pass, "forward", pc.block + 1,
            IF pc.pass = "init" THEN "enter" ELSE "define")

\* a variant of base that leaves ctx.name_cache as it finds it
base_name_cache_kept(snapshot, current) == current

\* base: ctx.name_cache = copy.deepcopy(name_cache), the content of the new dict
base_name_cache(snapshot, current) == snapshot

blk_frame == <<mode, script, pos, roots>>

\* the function of the block makes its next naming call
BodyCall ==
    /\ blk_pc.at = "calls"
    /\ blk_pc.ip < Len(CallsOf(blk_pc.block))
    /\ LET call == CallsOf(blk_pc.block)[blk_pc.ip + 1]
       IN  \/ /\ call.op = "enter"
              /\ DoEnter(call.name, "scope")
              /\ UNCHANGED <<src_params, blk_names, blk_created, blk_key>>
           \/ /\ call.op = "exit"
              /\ DoExit
              /\ UNCHANGED <<blk_names, blk_created, blk_key>>
           \/ /\ call.op = "get"
              /\ DoGet(call.name)
              /\ LET r == get_param(Top, call.name)
                 IN  /\ blk_names' = blk_names \cup {r.prefix_name}
                     /\ blk_created' = (blk_created \/ (r.created /\ blk_pc.pass = "run"))
                     /\ blk_key' = IF r.created THEN [drawn |-> TRUE, left |-> r.prng_key]
                                   ELSE blk_key
    /\ blk_pc' = [blk_pc EXCEPT !.ip = @ + 1]
    /\ UNCHANGED <<blk_depth, blk_snapshot, blk_invocations, blk_backward>>
    /\ UNCHANGED blk_frame
    /\ UNCHANGED not_blocks

\* input_embed or output_embed_shard returns
PlainReturn ==
    /\ blk_pc.at = "calls"
    /\ ~Wrapped(blk_pc.block)
    /\ blk_pc.ip = Len(CallsOf(blk_pc.block))
    /\ blk_pc' = AfterBlock(blk_pc)
    /\ blk_names' = {}
    /\ UNCHANGED <<blk_depth, blk_snapshot, blk_invocations, blk_backward, blk_created,
                   blk_key>>
    /\ UNCHANGED naming_vars
    /\ UNCHANGED not_blocks

\* body_ctx after its loop: ctx.parameters = src[0]
AssignParameters ==
    /\ blk_pc.at = "assign"
    /\ ctxs' = [ctxs EXCEPT ![Top].parameters = src_params]
    /\ blk_pc' = [blk_pc EXCEPT !.at = "calls"]
    /\ last' = [op |-> "assign", ctx |-> Top, child |-> 0, name |-> "parameters",
                created |-> FALSE, before |-> Heap]
    /\ UNCHANGED <<name_caches, param_stores, dim_stores, variance_stores, stack,
                   src_params, born, owner, collision>>
    /\ UNCHANGED <<blk_depth, blk_snapshot, blk_names, blk_invocations, blk_backward,
                   blk_created, blk_key>>
    /\ UNCHANGED blk_frame
    /\ UNCHANGED not_blocks

\* reversible on the initializing path, up to the call of fn
InitBlockEnter ==
    /\ blk_pc.pass = "init"
    /\ blk_pc.at = "enter"
    /\ DoReversibleEnter
    /\ blk_pc' = [blk_pc EXCEPT !.at = "calls"]
    /\ blk_names' = {}
    /\ blk_key' = [drawn |-> FALSE, left |-> <<>>]
    /\ UNCHANGED <<blk_depth, blk_snapshot, blk_invocations, blk_backward, blk_created>>
    /\ UNCHANGED blk_frame
    /\ UNCHANGED not_blocks

\* reversible on the initializing path, after fn returned
InitBlockExit ==
    /\ blk_pc.pass = "init"
    /\ blk_pc.at = "calls"
    /\ Wrapped(blk_pc.block)
    /\ blk_pc.ip = Len(CallsOf(blk_pc.block))
    /\ DoReversibleExit
    /\ blk_invocations' = Append(blk_invocations,
                              [pass |-> "init", phase |-> "forward", block |-> blk_pc.block,
                               names |-> blk_names])
    /\ blk_pc' = AfterBlock(blk_pc)
    /\ blk_names' = {}
    /\ UNCHANGED <<blk_depth, blk_snapshot, blk_backward, blk_created, blk_key>>
    /\ UNCHANGED blk_frame
    /\ UNCHANGED not_blocks

\* compute(params, inp): a fresh Context() that is given the parameters of
\* the initializing pass; body_ctx starts over with is_initializing off
StartCompute ==
    /\ blk_pc.pass = "init"
    /\ blk_pc.at = "end"
    /\ ctxs' = Append(ctxs, [Context(Len(name_caches) + 1, Len(param_stores) + 1,
                                     Len(dim_stores) + 1, Len(variance_stores) + 1, FALSE)
                             EXCEPT !.parameters = ctxs[roots[1]].parameters])
    /\ name_caches' = Append(name_caches, EmptyDict)
    /\ param_stores' = Append(param_stores, EmptyDict)
    /\ dim_stores' = Append(dim_stores, EmptyDict)
    /\ variance_stores' = Append(variance_stores, EmptyDict)
    /\ roots' = Append(roots, Len(ctxs) + 1)
    /\ stack' = <<[ctx |-> Len(ctxs) + 1, kind |-> "root"]>>
    /\ born' = Append(born, [parent |-> 0, name |-> "", suffix |-> 0])
    /\ src_params' = ctxs[roots[1]].parameters
    /\ mode' = "run"
    /\ last' = [op |-> "Context", ctx |-> Len(ctxs) + 1, child |-> 0,
                name |-> "", created |-> FALSE, before |-> Heap]
    /\ blk_pc' = At("run", "forward", 0, "calls")
    /\ UNCHANGED <<script, pos, owner, collision>>
    /\ UNCHANGED <<blk_depth, blk_snapshot, blk_names, blk_invocations, blk_backward,
                   blk_created, blk_key>>
    /\ UNCHANGED not_blocks

\* reversible off the initializing path is called for a block:
\* name_cache = copy.deepcopy(ctx.name_cache), and _fn(*src) runs base
DefineBlock ==
    /\ blk_pc.at = "define"
    /\ blk_snapshot' = Append(blk_snapshot, name_caches[ctxs[Top].name_cache])
    /\ blk_pc' = [blk_pc EXCEPT !.at = "restore"]
    /\ UNCHANGED <<blk_depth, blk_names, blk_invocations, blk_backward, blk_created,
                   blk_key>>
    /\ UNCHANGED naming_vars
    /\ UNCHANGED not_blocks

\* the backward pass reaches a block: _grad runs base once more, under
\* jax.vjp; the blocks' gradients are asked for in any order
BackwardInvocation(b) ==
    /\ blk_pc.at = "choose"
    /\ Wrapped(b)
    /\ blk_backward < MaxBackward
    /\ blk_backward' = blk_backward + 1
    /\ blk_pc' = At("run", "backward", b, "restore")
    /\ UNCHANGED <<blk_depth, blk_snapshot, blk_names, blk_invocations, blk_created,
                   blk_key>>
    /\ UNCHANGED naming_vars
    /\ UNCHANGED not_blocks

\* base, first line: ctx.name_cache = copy.deepcopy(name_cache)
RestoreSnapshot ==
    /\ blk_pc.at = "restore"
    /\ name_caches' = Append(name_caches,
                             base_name_cache(blk_snapshot[blk_pc.block],
                                             name_caches[ctxs[Top].name_cache]))
    /\ ctxs' = [ctxs EXCEPT ![Top].name_cache = Len(name_caches) + 1]
    /\ last' = [op |-> "restore", ctx |-> Top, child |-> 0, name |-> "name_cache",
                created |-> FALSE, before |-> Heap]
    /\ blk_pc' = [blk_pc EXCEPT !.at = "enter"]
    /\ UNCHANGED <<param_stores, dim_stores, variance_stores, stack, src_params, born,
                   owner, collision>>
    /\ UNCHANGED <<blk_depth, blk_snapshot, blk_names, blk_invocations, blk_backward,
                   blk_created, blk_key>>
    /\ UNCHANGED blk_frame
    /\ UNCHANGED not_blocks

\* base up to the call of fn: new_ctx = ctx.add_to_prefix("reversible");
\* new_ctx.parameters = params, the dict ctx.parameters refers to
BaseEnter ==
    /\ blk_pc.pass = "run"
    /\ blk_pc.at = "enter"
    /\ DoEnter("reversible", "base")
    /\ blk_pc' = [blk_pc EXCEPT !.at = "calls"]
    /\ blk_names' = {}
    /\ UNCHANGED src_params
    /\ UNCHANGED <<blk_depth, blk_snapshot, blk_invocations, blk_backward, blk_created,
                   blk_key>>
    /\ UNCHANGED blk_frame
    /\ UNCHANGED not_blocks

\* base after fn returned: ctx.name_cache = new_ctx.name_cache
BaseExit ==
    /\ blk_pc.pass = "run"
    /\ blk_pc.at = "calls"
    /\ Wrapped(blk_pc.block)
    /\ blk_pc.ip = Len(CallsOf(blk_pc.block))
    /\ ctxs' = [ctxs EXCEPT ![stack[Len(stack) - 1].ctx].name_cache = ctxs[Top].name_cache]
    /\ stack' = SubSeq(stack, 1, Len(stack) - 1)
    /\ last' = [op |-> "base", ctx |-> stack[Len(stack) - 1].ctx, child |-> Top,
                name |-> "reversible", created |-> FALSE, before |-> Heap]
    /\ blk_invocations' = Append(blk_invocations,
                              [pass |-> "run", phase |-> blk_pc.phase,
                               block |-> blk_pc.block, names |-> blk_names])
    /\ blk_pc' = AfterBlock(blk_pc)
    /\ blk_names' = {}
    /\ UNCHANGED <<name_caches, param_stores, dim_stores, variance_stores, src_params,
                   born, owner, collision>>
    /\ UNCHANGED <<blk_depth, blk_snapshot, blk_backward, blk_created, blk_key>>
    /\ UNCHANGED blk_frame
    /\ UNCHANGED not_blocks

\* main() calls body_ctx on a fresh initializing Context
InitBlocks ==
    /\ blk_depth \in 1..MaxLayers
    /\ blk_pc = At("init", "forward", 0, "calls")
    /\ blk_snapshot = <<>>
    /\ blk_names = {}
    /\ blk_invocations = <<>>
    /\ blk_backward = 0
    /\ blk_created = FALSE
    /\ blk_key = [drawn |-> FALSE, left |-> <<>>]

\* body_ctx is not run
IdleBlocks ==
    /\ blk_depth = 0
    /\ blk_pc = At("idle", "forward", 0, "idle")
    /\ blk_snapshot = <<>>
    /\ blk_names = {}
    /\ blk_invocations = <<>>
    /\ blk_backward = 0
    /\ blk_created = FALSE
    /\ blk_key = [drawn |-> FALSE, left |-> <<>>]

\* ------------------------------------------------------------------ training steps

RECURSIVE GCD(_, _)
GCD(a, b) == IF b = 0 THEN a ELSE GCD(b, a % b)

\* a fraction in lowest terms, so that equal values are equal records
RatNorm(a) ==
    LET g == GCD(IF a.num < 0 THEN 0 - a.num ELSE a.num, a.den)
    IN  IF g = 0 THEN Rat(0, 1) ELSE Rat(a.num \div g, a.den \div g)

RatTimes(a, b) == RatNorm(RatMul(a, b))
RatPlus(a, b) == RatNorm(Rat(a.num * b.den + b.num * a.den, a.den * b.den))
RatOneMinus(a) == RatNorm(Rat(a.den - a.num, a.den))

\* the configuration a training run is started with: ctx.optimizer and
\* ctx.training.device_steps
TrainConfig(heavyball, nesterov, warmup_end, statistics_compute_steps, device_steps) ==
    [learning_rate |-> OptimizerConfig.learning_rate,
     exponential_decay |-> OptimizerConfig.exponential_decay,
     epsilon |-> Rat(OptimizerConfig.epsilon, 1),
     adam_beta1 |-> Rat(1, 2),
     shampoo_beta2 |-> Rat(1, 2),
     heavyball |-> heavyball,
     nesterov |-> nesterov,
     warmup_end |-> warmup_end,
     statistics_compute_steps |-> statistics_compute_steps,
     device_steps |-> device_steps]

\* an optional bool argument: None, False or True
OptionalBool == {"None", "False", "True"}

\* the truth value Python gives an optional bool
truthy(flag) == flag = "True"

\* a configured flag as an argument value
as_flag(b) == IF b THEN "True" ELSE "False"

\* get_param(ctx, name, ..., init_val=...): the stored buffer, or init_val
\* when the name is not yet in ctx.parameters
get_buffer(parameters, name, init_val) ==
    IF name \in DOMAIN parameters THEN parameters[name] ELSE init_val

\* ema lines 46-49: the value heavyball has after the two defaults are
\* filled in; the second 'if' assigns to heavyball as well
ema_heavyball(opt, heavyball, nesterov) ==
    LET first == IF heavyball = "None" THEN as_flag(opt.heavyball) ELSE heavyball
    IN  IF nesterov = "None" THEN as_flag(opt.nesterov) ELSE first

\* ema lines 48-49: nesterov keeps the value it was given
ema_nesterov(opt, heavyball, nesterov) == nesterov

\* optimizer.ema on a scalar: the buffer it stores, the value it returns and
\* the branches it took
ema(opt, parameters, name, inp, step, beta, init_val, heavyball, nesterov) ==
    LET hb        == truthy(ema_heavyball(opt, heavyball, nesterov))
        nv        == truthy(ema_nesterov(opt, heavyball, nesterov))
        state     == get_buffer(parameters, name, init_val)
        new_state == RatPlus(RatTimes(state, beta),
                             RatTimes(inp, IF hb THEN Rat(1, 1) ELSE RatOneMinus(beta)))
        debiased  == IF ~hb THEN RatTimes(new_state, RatOneMinus(RatNorm(Pow(beta, step + 1))))
                     ELSE new_state
    IN  [momentum_buffer |-> new_state,
         out |-> IF nv THEN RatPlus(RatTimes(debiased, beta), inp) ELSE debiased,
         debiased |-> ~hb,
         corrected |-> nv]

\* Preconditioner.statistics_from_grad on a gradient of one entry: the one
\* statistic grad * grad
statistics_from_grad(gradient) == <<RatTimes(gradient, gradient)>>

\* fallback_pth_root: the inverse p-th root of the statistic, kept as a term
fallback_pth_root(prev_p, step, stat, epsilon) ==
    [op |-> "pth_root", of |-> stat, epsilon |-> epsilon]

\* a variant of the schedule test that asks for a new root at every step
recompute_due_always(opt, step) == TRUE

\* shampoo line 88: (step % ctx.optimizer.statistics_compute_steps) == 0
recompute_due(opt, step) == step % opt.statistics_compute_steps = 0

\* the identity of one row: jnp.eye(old_stat.shape[0])
eye == Rat(1, 1)

\* optimizer.shampoo on a gradient of one entry: ctx.parameters after it,
\* the statistic and the preconditioner it read and stored
shampoo(opt, parameters, gradient, step, is_initializing) ==
    LET old_stat == statistics_from_grad(gradient)[1]
        averaged == ema(opt, parameters, "shampoo/momentum_buffer", old_stat, step,
                        RatOneMinus(opt.shampoo_beta2), RatTimes(eye, opt.epsilon),
                        "False", "False")
        prev_p   == get_buffer(parameters, "shampoo/preconditioner_0", eye)
        new_p    == IF recompute_due(opt, step)
                    THEN fallback_pth_root(prev_p, step, averaged.out, opt.epsilon)
                    ELSE prev_p
        with_stat == Put(Put(parameters, "shampoo/momentum_buffer", averaged.momentum_buffer),
                         "shampoo/preconditioner_0", prev_p)
    IN  [parameters |-> IF is_initializing THEN with_stat
                        ELSE Put(with_stat, "shampoo/preconditioner_0", new_p),
         step |-> step,
         is_initializing |-> is_initializing,
         old_statistic |-> get_buffer(parameters, "shampoo/momentum_buffer",
                                      RatTimes(eye, opt.epsilon)),
         new_statistic |-> averaged.momentum_buffer,
         new_stat |-> averaged.out,
         prev_p |-> prev_p,
         new_p |-> IF is_initializing THEN prev_p ELSE new_p]

\* the gradients of the one-entry parameter a run is trained on
Gradients == {Rat(1, 1), Rat(2, 1)}

\* nothing has been computed yet
NoEma == [step |-> 0, momentum_buffer |-> Rat(0, 1), out |-> Rat(0, 1),
          debiased |-> FALSE, corrected |-> FALSE]
NoShampoo == [parameters |-> EmptyDict, step |-> 0, is_initializing |-> TRUE,
              old_statistic |-> Rat(0, 1), new_statistic |-> Rat(0, 1),
              new_stat |-> Rat(0, 1), prev_p |-> eye, new_p |-> eye]
NoLr == [step |-> 0, value |-> Rat(0, 1)]

\* the optimizer calls of update on one parameter: get_current_lr, adam's
\* ema of the gradient and shampoo; what each of them returned is kept
update_calls(opt, parameters, gradient, step, args, is_initializing) ==
    LET first    == ema(opt, parameters, "adam/momentum_buffer", gradient, step,
                        RatOneMinus(opt.adam_beta1), Rat(0, 1), args.heavyball, args.nesterov)
        averaged == Put(parameters, "adam/momentum_buffer", first.momentum_buffer)
        second   == shampoo(opt, averaged, gradient, step, is_initializing)
    IN  [lr |-> [step |-> step, value |-> RatNorm(get_current_lr(opt, step))],
         ema |-> [step |-> step, momentum_buffer |-> first.momentum_buffer,
                  out |-> first.out, debiased |-> first.debiased,
                  corrected |-> first.corrected],
         averaged |-> averaged,
         shampoo |-> second]

tr_frame == <<tr_config, tr_args, tr_grad>>

\* main: "Acquiring optimizer parameters", update on zero gradients at step
\* one with ctx.is_initializing set
AcquireOptimizerParameters ==
    /\ tr_pc = "main"
    /\ LET r == update_calls(tr_config, tr_parameters, Rat(0, 1), 1, tr_args, TRUE)
       IN  /\ tr_lr' = r.lr
           /\ tr_ema' = r.ema
           /\ tr_shampoo' = r.shampoo
           /\ tr_parameters' = r.shampoo.parameters
    /\ tr_pc' = "driver"
    /\ UNCHANGED <<tr_step, tr_iterations, tr_slices, tr_invocations>>
    /\ UNCHANGED tr_frame
    /\ UNCHANGED not_train

\* train_loop._fn up to the call of step: w.current_step = w.current_step + 1
DriverCall ==
    /\ tr_pc = "driver"
    /\ Len(tr_invocations) < MaxInvocations
    /\ tr_step' = tr_step + 1
    /\ tr_iterations' = 0
    /\ tr_slices' = <<>>
    /\ tr_pc' = "cond"
    /\ UNCHANGED <<tr_parameters, tr_lr, tr_ema, tr_shampoo, tr_invocations>>
    /\ UNCHANGED tr_frame
    /\ UNCHANGED not_train

\* cond_fn: current_step mod (device_steps + 1) != 0
cond_fn(step, device_steps) == step % (device_steps + 1) # 0

\* lax.while_loop finds cond_fn true and runs train_step, which takes its
\* batch: wctx.data[wctx.current_step % device_steps]
LoopContinues ==
    /\ tr_pc = "cond"
    /\ cond_fn(tr_step, tr_config.device_steps)
    /\ tr_slices' = Append(tr_slices, tr_step % tr_config.device_steps)
    /\ tr_pc' = "lr"
    /\ UNCHANGED <<tr_step, tr_parameters, tr_lr, tr_ema, tr_shampoo, tr_iterations,
                   tr_invocations>>
    /\ UNCHANGED tr_frame
    /\ UNCHANGED not_train

\* lax.while_loop finds cond_fn false: the driver step returns
LoopExits ==
    /\ tr_pc = "cond"
    /\ ~cond_fn(tr_step, tr_config.device_steps)
    /\ tr_invocations' = Append(tr_invocations,
                                [iterations |-> tr_iterations, slices |-> tr_slices])
    /\ tr_pc' = "driver"
    /\ UNCHANGED <<tr_step, tr_parameters, tr_lr, tr_ema, tr_shampoo, tr_iterations,
                   tr_slices>>
    /\ UNCHANGED tr_frame
    /\ UNCHANGED not_train

\* update, first line after the prefix: lr = -get_current_lr(ctx, step)
GetCurrentLr ==
    /\ tr_pc = "lr"
    /\ tr_lr' = [step |-> tr_step, value |-> RatNorm(get_current_lr(tr_config, tr_step))]
    /\ tr_pc' = "ema"
    /\ UNCHANGED <<tr_step, tr_parameters, tr_ema, tr_shampoo, tr_iterations, tr_slices,
                   tr_invocations>>
    /\ UNCHANGED tr_frame
    /\ UNCHANGED not_train

\* ema is called on the gradient
Ema ==
    /\ tr_pc = "ema"
    /\ LET r == update_calls(tr_config, tr_parameters, tr_grad, tr_step, tr_args, FALSE)
       IN  /\ tr_ema' = r.ema
           /\ tr_parameters' = r.averaged
    /\ tr_pc' = "shampoo"
    /\ UNCHANGED <<tr_step, tr_lr, tr_shampoo, tr_iterations, tr_slices, tr_invocations>>
    /\ UNCHANGED tr_frame
    /\ UNCHANGED not_train

\* shampoo is called on the gradient
Shampoo ==
    /\ tr_pc = "shampoo"
    /\ LET r == shampoo(tr_config, tr_parameters, tr_grad, tr_step, FALSE)
       IN  /\ tr_shampoo' = r
           /\ tr_parameters' = r.parameters
    /\ tr_pc' = "increment"
    /\ UNCHANGED <<tr_step, tr_lr, tr_ema, tr_iterations, tr_slices, tr_invocations>>
    /\ UNCHANGED tr_frame
    /\ UNCHANGED not_train

\* train_step, last lines: wctx.current_step += 1
Increment ==
    /\ tr_pc = "increment"
    /\ tr_step' = tr_step + 1
    /\ tr_iterations' = tr_iterations + 1
    /\ tr_pc' = "cond"
    /\ UNCHANGED <<tr_parameters, tr_lr, tr_ema, tr_shampoo, tr_slices, tr_invocations>>
    /\ UNCHANGED tr_frame
    /\ UNCHANGED not_train

\* main starts a run: WhileTrainContext() with current_step = 1
InitTrain ==
    /\ tr_config \in {TrainConfig(h, n, w, k, d) :
                          h \in BOOLEAN, n \in BOOLEAN, w \in 1..MaxWarmup,
                          k \in 1..MaxComputeSteps, d \in 1..MaxDeviceSteps}
    /\ tr_args \in [heavyball : OptionalBool, nesterov : OptionalBool]
    /\ tr_grad \in Gradients
    /\ tr_step = 1
    /\ tr_pc = "main"
    /\ tr_parameters = EmptyDict
    /\ tr_lr = NoLr
    /\ tr_ema = NoEma
    /\ tr_shampoo = NoShampoo
    /\ tr_iterations = 0
    /\ tr_slices = <<>>
    /\ tr_invocations = <<>>

\* no run is started
IdleTrain ==
    /\ tr_config = TrainConfig(FALSE, FALSE, 1, 1, 1)
    /\ tr_args = [heavyball |-> "None", nesterov |-> "None"]
    /\ tr_grad = Rat(0, 1)
    /\ tr_step = 0
    /\ tr_pc = "idle"
    /\ tr_parameters = EmptyDict
    /\ tr_lr = NoLr
    /\ tr_ema = NoEma
    /\ tr_shampoo = NoShampoo
    /\ tr_iterations = 0
    /\ tr_slices = <<>>
    /\ tr_invocations = <<>>

\* ------------------------------------------------------------------ tfrecord writer

\* tokens[a:b] of a Python list, 0-based and end-exclusive, for 0 <= a, b
slice(tokens, a, b) ==
    LET stop == IF b > Len(tokens) THEN Len(tokens) ELSE b
    IN  IF a >= stop THEN <<>> ELSE SubSeq(tokens, a + 1, stop)

\* tokens[-n:] of a Python list for n >= 0: -0 is 0, so tokens[-0:] is the
\* whole list
tail_slice(tokens, n) ==
    IF n = 0 THEN tokens
    ELSE IF n >= Len(tokens) THEN tokens
    ELSE SubSeq(tokens, Len(tokens) - n + 1, Len(tokens))

\* write_tfrecords line 171: residual_tokens = tokens[-residual:]
residual_tokens(tokens, residual) == tail_slice(tokens, residual)

RECURSIVE chunks(_, _, _, _)
\* the loop of write_tfrecords: one file per chunk_size tokens of the first
\* count tokens, named by tfrecord_id + added
chunks(tokens, chunk_size, count, tfrecord_id) ==
    IF count = 0 THEN <<>>
    ELSE chunks(tokens, chunk_size, count - chunk_size, tfrecord_id)
             \o <<[name |-> tfrecord_id + ((count - chunk_size) \div chunk_size),
                   tokens |-> slice(tokens, count - chunk_size, count)]>>

\* write_tfrecords: the files it uploads, the list tokens after it and the
\* number it returns
write_tfrecords(tokens, chunk_size, tfrecord_id) ==
    LET residual == Len(tokens) % chunk_size
        count    == Len(tokens) - residual
    IN  IF count = 0
        THEN [uploaded |-> <<>>, tokens |-> tokens, added |-> 0]
        ELSE [uploaded |-> chunks(tokens, chunk_size, count, tfrecord_id),
              tokens |-> residual_tokens(tokens, residual),
              added |-> count \div chunk_size]

\* tokenize: the tokens of the next frames, each with an identity of its own
tokenize(first, n) == [i \in 1..n |-> first + i - 1]

\* the padding token put between two videos; it is the same value every
\* time, the model gives each occurrence an identity below zero
padding_token(fresh) == 0 - fresh

\* worker, loop body after queue.get: a padding token if tokens are left
\* over, the new tokens, then write_tfrecords
WorkerIteration(n) ==
    /\ rec_pc = "run"
    /\ rec_fresh + n <= MaxTokens
    /\ LET padded   == IF rec_tokens # <<>>
                       THEN Append(rec_tokens, padding_token(rec_fresh)) ELSE rec_tokens
           extended == padded \o tokenize(rec_fresh + 1, n)
           r        == write_tfrecords(extended, rec_chunk_size, rec_tfrecord_id)
       IN  /\ rec_tokens' = r.tokens
           /\ rec_uploaded' = rec_uploaded \o r.uploaded
           /\ rec_tfrecord_id' = rec_tfrecord_id + r.added
           /\ rec_last' = [before |-> extended, added |-> r.added]
    /\ rec_fresh' = rec_fresh + n + 1
    /\ UNCHANGED <<rec_chunk_size, rec_pc>>
    /\ UNCHANGED not_records

\* worker after its loop: the processes are gone, write_tfrecords once more
WorkerExit ==
    /\ rec_pc = "run"
    /\ LET r == write_tfrecords(rec_tokens, rec_chunk_size, rec_tfrecord_id)
       IN  /\ rec_tokens' = r.tokens
           /\ rec_uploaded' = rec_uploaded \o r.uploaded
           /\ rec_tfrecord_id' = rec_tfrecord_id + r.added
           /\ rec_last' = [before |-> rec_tokens, added |-> r.added]
    /\ rec_pc' = "done"
    /\ UNCHANGED <<rec_chunk_size, rec_fresh>>
    /\ UNCHANGED not_records

\* worker starts: tokens = [], tfrecord_id = 0
InitRecords ==
    /\ rec_chunk_size \in 1..MaxChunk
    /\ rec_tokens = <<>>
    /\ rec_uploaded = <<>>
    /\ rec_tfrecord_id = 0
    /\ rec_fresh = 0
    /\ rec_last = [before |-> <<>>, added |-> 0]
    /\ rec_pc = "run"

\* no worker runs
IdleRecords ==
    /\ rec_chunk_size = 1
    /\ rec_tokens = <<>>
    /\ rec_uploaded = <<>>
    /\ rec_tfrecord_id = 0
    /\ rec_fresh = 0
    /\ rec_last = [before |-> <<>>, added |-> 0]
    /\ rec_pc = "idle"

\* ------------------------------------------------------------------ ListQueue

\* the processes that call get and the processes that call put
ListGetters == 1..MaxGetters
ListPutters == {100 + i : i \in 1..MaxPutters}

\* a lock that nobody holds
Free == 0

\* get, line 235: with self.read_lock
ListGetEnter(g) ==
    /\ lq_pc[g] = "idle"
    /\ lq_read_lock = Free
    /\ lq_read_lock' = g
    /\ lq_pc' = [lq_pc EXCEPT ![g] = "check"]
    /\ UNCHANGED <<lq_list, lq_write_lock, lq_cond_lock, lq_got>>
    /\ UNCHANGED not_listqueue

\* get, line 236: if not self.list
ListGetCheck(g) ==
    /\ lq_pc[g] = "check"
    /\ lq_pc' = [lq_pc EXCEPT ![g] = IF lq_list = <<>> THEN "cond" ELSE "pop"]
    /\ UNCHANGED <<lq_list, lq_read_lock, lq_write_lock, lq_cond_lock, lq_got>>
    /\ UNCHANGED not_listqueue

\* get, line 237: with self.cond
ListGetCondAcquire(g) ==
    /\ lq_pc[g] = "cond"
    /\ lq_cond_lock = Free
    /\ lq_cond_lock' = g
    /\ lq_pc' = [lq_pc EXCEPT ![g] = "wait"]
    /\ UNCHANGED <<lq_list, lq_read_lock, lq_write_lock, lq_got>>
    /\ UNCHANGED not_listqueue

\* get, line 238: self.cond.wait() gives the lock up and blocks
ListGetWait(g) ==
    /\ lq_pc[g] = "wait"
    /\ lq_cond_lock' = Free
    /\ lq_pc' = [lq_pc EXCEPT ![g] = "waiting"]
    /\ UNCHANGED <<lq_list, lq_read_lock, lq_write_lock, lq_got>>
    /\ UNCHANGED not_listqueue

\* get, lines 238-239: a notified wait takes the lock again, returns, and the
\* with block gives the lock back
ListGetWake(g) ==
    /\ lq_pc[g] = "notified"
    /\ lq_cond_lock = Free
    /\ lq_pc' = [lq_pc EXCEPT ![g] = "pop"]
    /\ UNCHANGED <<lq_list, lq_read_lock, lq_write_lock, lq_cond_lock, lq_got>>
    /\ UNCHANGED not_listqueue

\* get, line 239: return self.list.pop(0); pop raises IndexError on an empty
\* list; the read_lock is given back either way
ListGetPop(g) ==
    /\ lq_pc[g] = "pop"
    /\ IF lq_list = <<>>
       THEN /\ lq_pc' = [lq_pc EXCEPT ![g] = "raised"]
            /\ UNCHANGED <<lq_list, lq_got>>
       ELSE /\ lq_got' = [lq_got EXCEPT ![g] = lq_list[1]]
            /\ lq_list' = Tail(lq_list)
            /\ lq_pc' = [lq_pc EXCEPT ![g] = "done"]
    /\ lq_read_lock' = Free
    /\ UNCHANGED <<lq_write_lock, lq_cond_lock>>
    /\ UNCHANGED not_listqueue

\* put, line 242: with self.write_lock
ListPutEnter(p) ==
    /\ lq_pc[p] = "idle"
    /\ lq_write_lock = Free
    /\ lq_write_lock' = p
    /\ lq_pc' = [lq_pc EXCEPT ![p] = "append"]
    /\ UNCHANGED <<lq_list, lq_read_lock, lq_cond_lock, lq_got>>
    /\ UNCHANGED not_listqueue

\* put, line 243: self.list.append(obj)
ListPutAppend(p) ==
    /\ lq_pc[p] = "append"
    /\ lq_list' = Append(lq_list, p)
    /\ lq_pc' = [lq_pc EXCEPT ![p] = "cond"]
    /\ UNCHANGED <<lq_read_lock, lq_write_lock, lq_cond_lock, lq_got>>
    /\ UNCHANGED not_listqueue

\* put, line 244: with self.cond
ListPutCondAcquire(p) ==
    /\ lq_pc[p] = "cond"
    /\ lq_cond_lock = Free
    /\ lq_cond_lock' = p
    /\ lq_pc' = [lq_pc EXCEPT ![p] = "notify"]
    /\ UNCHANGED <<lq_list, lq_read_lock, lq_write_lock, lq_got>>
    /\ UNCHANGED not_listqueue

\* put, line 245: self.cond.notify_all() wakes the processes that are
\* waiting now; both with blocks end
ListPutNotify(p) ==
    /\ lq_pc[p] = "notify"
    /\ lq_pc' = [q \in DOMAIN lq_pc |->
                     IF q = p THEN "done"
                     ELSE IF lq_pc[q] = "waiting" THEN "notified" ELSE lq_pc[q]]
    /\ lq_cond_lock' = Free
    /\ lq_write_lock' = Free
    /\ UNCHANGED <<lq_list, lq_read_lock, lq_got>>
    /\ UNCHANGED not_listqueue

\* ListQueue(): an empty list, free locks, and processes about to call
InitListQueue ==
    /\ lq_list = <<>>
    /\ lq_read_lock = Free
    /\ lq_write_lock = Free
    /\ lq_cond_lock = Free
    /\ lq_pc = [q \in ListGetters \cup ListPutters |-> "idle"]
    /\ lq_got = [g \in ListGetters |-> Free]

\* no ListQueue is in use
IdleListQueue ==
    /\ lq_list = <<>>
    /\ lq_read_lock = Free
    /\ lq_write_lock = Free
    /\ lq_cond_lock = Free
    /\ lq_pc = <<>>
    /\ lq_got = <<>>

\* ------------------------------------------------------------------ SharedQueue

\* the processes that call SharedQueue.put (frame_worker) and
\* SharedQueue.get (worker)
FramePutters == {100 + i : i \in 1..MaxFrameWorkers}
FrameGetters == 1..MaxWorkers

\* frame.shape[0], the rows of the shared frame buffer
Capacity == 4 * MaxSlice

\* put, line 319: max_size = self.frame.shape[0] // 4
max_size == Capacity \div 4

\* the values the lists _free_memory zips are made of: None, an int, or a
\* (start, end) tuple of the index list
NoneValue == [kind |-> "None", value |-> <<>>]
IntValue(n) == [kind |-> "int", value |-> <<n>>]
TupleValue(region) == [kind |-> "tuple", value |-> region]

\* a value can be unpacked into two targets
unpacks(v) == v.kind = "tuple"

RECURSIVE scan_free(_, _, _, _)
\* the for loop of _free_memory over zip(left, right) from position i on:
\* each pair is unpacked as ((_, prev_end), (start, _)), which raises
\* TypeError on a value that is no tuple; the first gap larger than size wins
scan_free(left, right, size, i) ==
    IF i > Len(left) \/ i > Len(right) THEN [kind |-> "None", idx |-> 0, start |-> 0, end |-> 0]
    ELSE IF ~unpacks(left[i]) \/ ~unpacks(right[i])
         THEN [kind |-> "TypeError", idx |-> 0, start |-> 0, end |-> 0]
    ELSE IF right[i].value[1] - left[i].value[2] > size
         THEN [kind |-> "tuple", idx |-> i - 1, start |-> left[i].value[2],
               end |-> left[i].value[2] + size]
    ELSE scan_free(left, right, size, i + 1)

\* SharedQueue._free_memory: (0, 0, size) on an empty queue, else the scan of
\* zip([None, 0] + local_indices, local_indices + [None, self.frame.shape[0]])
free_memory(indices, size) ==
    IF indices = <<>> THEN [kind |-> "tuple", idx |-> 0, start |-> 0, end |-> size]
    ELSE LET local_indices == [i \in DOMAIN indices |-> TupleValue(indices[i])]
         IN  scan_free(<<NoneValue, IntValue(0)>> \o local_indices,
                       local_indices \o <<NoneValue, IntValue(Capacity)>>, size, 1)

\* list.insert(idx, item), idx counted from 0
insert(indices, idx, item) ==
    SubSeq(indices, 1, idx) \o <<item>> \o SubSeq(indices, idx + 1, Len(indices))

RECURSIVE slices(_)
\* put, lines 320-323: a batch larger than max_size is put slice by slice
slices(batches) ==
    IF batches <= max_size THEN <<batches>>
    ELSE <<max_size>> \o slices(batches - max_size)

\* row k of the array a put call was given
Row(call, k) == <<call, k>>

\* a row of the frame nothing was written to (self.frame[:] = 0)
ZeroRow == <<0, 0>>

\* the locals of a process that is in neither put nor get
NoLocal == [call |-> 0, todo |-> <<>>, base |-> 0, start |-> 0, end |-> 0, at |-> 0,
            out |-> <<>>, promised |-> FALSE]

\* a free gap larger than size exists between the recorded regions
GapExists(indices, size) ==
    \E i \in 0..Len(indices) :
        (IF i = Len(indices) THEN Capacity ELSE indices[i + 1][1])
            - (IF i = 0 THEN 0 ELSE indices[i][2]) > size

\* frame_worker calls queue.put(frames) with an array of batches rows
FramePut(p, batches) ==
    /\ sq_pc[p] = "idle"
    /\ sq_calls < MaxPuts
    /\ sq_calls' = sq_calls + 1
    /\ sq_local' = [sq_local EXCEPT ![p] =
                        [NoLocal EXCEPT !.call = sq_calls + 1,
                                        !.todo = slices(batches),
                                        !.promised = /\ batches <= max_size
                                                     /\ sq_indices # <<>>
                                                     /\ GapExists(sq_indices, batches)]]
    /\ sq_pc' = [sq_pc EXCEPT ![p] = "fits"]
    /\ UNCHANGED <<sq_recorded, sq_returned>>
    /\ UNCHANGED <<sq_indices, sq_frame, sq_write_lock, sq_read_lock>>
    /\ UNCHANGED not_sharedqueue

\* put, lines 325-336: while not _fits(), with _free_memory called outside
\* the lock; a tuple is truthy, None sleeps and tries again, a TypeError of
\* _free_memory leaves put
FrameFits(p) ==
    /\ sq_pc[p] = "fits"
    /\ LET found == free_memory(sq_indices, sq_local[p].todo[1])
       IN  sq_pc' = [sq_pc EXCEPT ![p] =
                         IF found.kind = "TypeError" THEN "raised"
                         ELSE IF found.kind = "None" THEN "fits"
                         ELSE "lock"]
    /\ UNCHANGED <<sq_local, sq_calls, sq_recorded, sq_returned>>
    /\ UNCHANGED <<sq_indices, sq_frame, sq_write_lock, sq_read_lock>>
    /\ UNCHANGED not_sharedqueue

\* _put_item, line 309: with self.write_index_lock
FrameLock(p) ==
    /\ sq_pc[p] = "lock"
    /\ sq_write_lock = Free
    /\ sq_write_lock' = p
    /\ sq_pc' = [sq_pc EXCEPT ![p] = "insert"]
    /\ UNCHANGED <<sq_indices, sq_frame, sq_read_lock, sq_local, sq_calls, sq_recorded,
                   sq_returned>>
    /\ UNCHANGED not_sharedqueue

\* _put_item, lines 310-314: the region is looked up again and published;
\* the lock is given back when the block is left, also by a TypeError
FrameInsert(p) ==
    /\ sq_pc[p] = "insert"
    /\ LET found == free_memory(sq_indices, sq_local[p].todo[1])
       IN  IF found.kind = "tuple"
           THEN /\ sq_indices' = insert(sq_indices, found.idx, <<found.start, found.end>>)
                /\ sq_local' = [sq_local EXCEPT ![p].start = found.start,
                                                ![p].end = found.end,
                                                ![p].at = found.start]
                /\ sq_recorded' = Append(sq_recorded,
                                         [call |-> sq_local[p].call,
                                          offset |-> sq_local[p].base,
                                          region |-> <<found.start, found.end>>,
                                          among |-> sq_indices])
                /\ sq_pc' = [sq_pc EXCEPT ![p] = "copy"]
           ELSE /\ sq_pc' = [sq_pc EXCEPT ![p] =
                                 IF found.kind = "TypeError" THEN "raised" ELSE "idle"]
                /\ UNCHANGED <<sq_indices, sq_local, sq_recorded>>
    /\ sq_write_lock' = Free
    /\ UNCHANGED <<sq_frame, sq_read_lock, sq_calls, sq_returned>>
    /\ UNCHANGED not_sharedqueue

\* _put_item, line 315: self.frame[start:end] = obj[:], a copy made row after
\* row outside every lock; after the last row put goes on with its next slice
FrameCopy(p) ==
    /\ sq_pc[p] = "copy"
    /\ IF sq_local[p].at < sq_local[p].end
       THEN /\ sq_frame' = [sq_frame EXCEPT ![sq_local[p].at] =
                                Row(sq_local[p].call,
                                    sq_local[p].base + sq_local[p].at - sq_local[p].start)]
            /\ sq_local' = [sq_local EXCEPT ![p].at = @ + 1]
            /\ UNCHANGED sq_pc
       ELSE /\ sq_local' = [sq_local EXCEPT ![p].todo = Tail(@),
                                            ![p].base = @ + sq_local[p].todo[1]]
            /\ sq_pc' = [sq_pc EXCEPT ![p] =
                              IF Len(sq_local[p].todo) > 1 THEN "fits" ELSE "idle"]
            /\ UNCHANGED sq_frame
    /\ UNCHANGED <<sq_indices, sq_write_lock, sq_read_lock, sq_calls, sq_recorded,
                   sq_returned>>
    /\ UNCHANGED not_sharedqueue

\* get, line 292: with self.read_index_lock
FrameGetLock(g) ==
    /\ sq_pc[g] = "idle"
    /\ Len(sq_returned) + Cardinality({h \in FrameGetters : sq_pc[h] # "idle"}) < MaxGets
    /\ sq_read_lock = Free
    /\ sq_read_lock' = g
    /\ sq_local' = [sq_local EXCEPT ![g] = NoLocal]
    /\ sq_pc' = [sq_pc EXCEPT ![g] = "pop"]
    /\ UNCHANGED <<sq_indices, sq_frame, sq_write_lock, sq_calls, sq_recorded, sq_returned>>
    /\ UNCHANGED not_sharedqueue

\* get, lines 293-295: sleep while the queue is empty, then pop the first
\* region and give the lock back
FrameGetPop(g) ==
    /\ sq_pc[g] = "pop"
    /\ sq_indices # <<>>
    /\ sq_local' = [sq_local EXCEPT ![g].start = Head(sq_indices)[1],
                                    ![g].end = Head(sq_indices)[2],
                                    ![g].at = Head(sq_indices)[1]]
    /\ sq_indices' = Tail(sq_indices)
    /\ sq_read_lock' = Free
    /\ sq_pc' = [sq_pc EXCEPT ![g] = "copy"]
    /\ UNCHANGED <<sq_frame, sq_write_lock, sq_calls, sq_recorded, sq_returned>>
    /\ UNCHANGED not_sharedqueue

\* get, line 296: self.frame[start:end].copy(), read row after row outside
\* every lock, then returned
FrameGetCopy(g) ==
    /\ sq_pc[g] = "copy"
    /\ IF sq_local[g].at < sq_local[g].end
       THEN /\ sq_local' = [sq_local EXCEPT ![g].out = Append(@, sq_frame[sq_local[g].at]),
                                            ![g].at = @ + 1]
            /\ UNCHANGED <<sq_pc, sq_returned>>
       ELSE /\ sq_returned' = Append(sq_returned,
                                     [region |-> <<sq_local[g].start, sq_local[g].end>>,
                                      rows |-> sq_local[g].out])
            /\ sq_pc' = [sq_pc EXCEPT ![g] = "idle"]
            /\ UNCHANGED sq_local
    /\ UNCHANGED <<sq_calls, sq_recorded>>
    /\ UNCHANGED <<sq_indices, sq_frame, sq_write_lock, sq_read_lock>>
    /\ UNCHANGED not_sharedqueue

InitSharedQueue ==
    /\ sq_indices = <<>>
    /\ sq_frame = [i \in 0..(Capacity - 1) |-> ZeroRow]
    /\ sq_write_lock = Free
    /\ sq_read_lock = Free
    /\ sq_pc = [p \in FramePutters \cup FrameGetters |-> "idle"]
    /\ sq_local = [p \in FramePutters \cup FrameGetters |-> NoLocal]
    /\ sq_calls = 0
    /\ sq_recorded = <<>>
    /\ sq_returned = <<>>

IdleSharedQueue ==
    /\ sq_indices = <<>>
    /\ sq_frame = <<>>
    /\ sq_write_lock = Free
    /\ sq_read_lock = Free
    /\ sq_pc = <<>>
    /\ sq_local = <<>>
    /\ sq_calls = 0
    /\ sq_recorded = <<>>
    /\ sq_returned = <<>>

\* -------------------------------------------------------------- QueuedSemaphore

\* the processes that use the semaphore, each through one
\* QueuedSemaphoreContext: acquire(val) on entry, release(val) on exit
SemProcs == 1..MaxJobs

\* the amounts a caller asks for; below 1 they count down from max_value
SemVals(max_value) == (0 - max_value)..max_value

\* acquire, lines 194-195, and release, lines 206-207:
\* if val < 1: val = self.max_value + val
amount(max_value, val) == IF val < 1 THEN max_value + val ELSE val

\* a variant that grants to any waiter the value suffices for
may_take_any(queue, job_id, value, val) == value >= val

\* acquire, line 197, negated: the loop is left when the job is at the head
\* of the queue and the value suffices
may_take(queue, job_id, value, val) == ~(queue[1] # job_id \/ value < val)

NoJob == [job_id |-> 0, val |-> 0, waited |-> FALSE]

\* acquire, lines 191-192: a fresh job id; with self._queue_lock
SemArrive(p, val) ==
    /\ sem_pc[p] = "idle"
    /\ val \in SemVals(sem_max_value)
    /\ sem_queue_lock = Free
    /\ sem_queue_lock' = p
    /\ sem_job' = [sem_job EXCEPT ![p] = [NoJob EXCEPT !.job_id = Len(sem_arrivals) + 1,
                                                       !.val = val]]
    /\ sem_pc' = [sem_pc EXCEPT ![p] = "enqueue"]
    /\ UNCHANGED <<sem_max_value, sem_value, sem_queue, sem_cond_lock, sem_arrivals,
                   sem_granted>>
    /\ UNCHANGED not_semaphore

\* acquire, lines 193-195: the job id is appended, the lock given back and
\* the amount counted from max_value
SemEnqueue(p) ==
    /\ sem_pc[p] = "enqueue"
    /\ sem_queue' = Append(sem_queue, sem_job[p].job_id)
    /\ sem_arrivals' = Append(sem_arrivals, sem_job[p].job_id)
    /\ sem_queue_lock' = Free
    /\ sem_job' = [sem_job EXCEPT ![p].val = amount(sem_max_value, @)]
    /\ sem_pc' = [sem_pc EXCEPT ![p] = "cond"]
    /\ UNCHANGED <<sem_max_value, sem_value, sem_cond_lock, sem_granted>>
    /\ UNCHANGED not_semaphore

\* acquire, line 196: with self._cond, also when wait() takes the lock again
\* after a notification
SemCondAcquire(p) ==
    /\ sem_pc[p] = "cond"
    /\ sem_cond_lock = Free
    /\ sem_cond_lock' = p
    /\ sem_pc' = [sem_pc EXCEPT ![p] = "test"]
    /\ UNCHANGED <<sem_max_value, sem_value, sem_queue, sem_queue_lock, sem_job, sem_arrivals,
                   sem_granted>>
    /\ UNCHANGED not_semaphore

\* acquire, lines 197-198: the loop test; wait() gives the lock of the
\* condition back and sleeps until notified
SemWait(p) ==
    /\ sem_pc[p] = "test"
    /\ ~may_take(sem_queue, sem_job[p].job_id, sem_value, sem_job[p].val)
    /\ sem_cond_lock' = Free
    /\ sem_job' = [sem_job EXCEPT ![p].waited = TRUE]
    /\ sem_pc' = [sem_pc EXCEPT ![p] = "waiting"]
    /\ UNCHANGED <<sem_max_value, sem_value, sem_queue, sem_queue_lock, sem_arrivals,
                   sem_granted>>
    /\ UNCHANGED not_semaphore

\* acquire, lines 197-200: the loop is left and the value taken; _value_lock
\* is only ever taken under the lock of the condition and is free here
SemTake(p) ==
    /\ sem_pc[p] = "test"
    /\ may_take(sem_queue, sem_job[p].job_id, sem_value, sem_job[p].val)
    /\ sem_value' = sem_value - sem_job[p].val
    /\ sem_granted' = Append(sem_granted,
                             [job_id |-> sem_job[p].job_id, head |-> sem_queue[1],
                              value |-> sem_value, val |-> sem_job[p].val,
                              waited |-> sem_job[p].waited])
    /\ sem_pc' = [sem_pc EXCEPT ![p] = "dequeue"]
    /\ UNCHANGED <<sem_max_value, sem_queue, sem_cond_lock, sem_queue_lock, sem_job,
                   sem_arrivals>>
    /\ UNCHANGED not_semaphore

\* acquire, lines 201-203: with self._queue_lock the head is deleted, both
\* locks are given back and acquire returns
SemDequeue(p) ==
    /\ sem_pc[p] = "dequeue"
    /\ sem_queue_lock = Free
    /\ sem_queue' = Tail(sem_queue)
    /\ sem_cond_lock' = Free
    /\ sem_pc' = [sem_pc EXCEPT ![p] = "holding"]
    /\ UNCHANGED <<sem_max_value, sem_value, sem_queue_lock, sem_job, sem_arrivals,
                   sem_granted>>
    /\ UNCHANGED not_semaphore

\* release, lines 206-208: the amount is counted from max_value as in
\* acquire (sem_job holds it); with self._cond
SemReleaseEnter(p) ==
    /\ sem_pc[p] = "holding"
    /\ sem_cond_lock = Free
    /\ sem_cond_lock' = p
    /\ sem_pc' = [sem_pc EXCEPT ![p] = "release"]
    /\ UNCHANGED <<sem_max_value, sem_value, sem_queue, sem_queue_lock, sem_job, sem_arrivals,
                   sem_granted>>
    /\ UNCHANGED not_semaphore

\* release, lines 209-211: the value is given back and every waiter is
\* notified; each takes the lock of the condition again in its own time
SemRelease(p) ==
    /\ sem_pc[p] = "release"
    /\ sem_value' = sem_value + sem_job[p].val
    /\ sem_cond_lock' = Free
    /\ sem_pc' = [q \in SemProcs |->
                      IF q = p THEN "done"
                      ELSE IF sem_pc[q] = "waiting" THEN "cond"
                      ELSE sem_pc[q]]
    /\ UNCHANGED <<sem_max_value, sem_queue, sem_queue_lock, sem_job, sem_arrivals,
                   sem_granted>>
    /\ UNCHANGED not_semaphore

InitQueuedSemaphore ==
    /\ sem_max_value \in 1..MaxValue
    /\ sem_value = sem_max_value
    /\ sem_queue = <<>>
    /\ sem_cond_lock = Free
    /\ sem_queue_lock = Free
    /\ sem_pc = [p \in SemProcs |-> "idle"]
    /\ sem_job = [p \in SemProcs |-> NoJob]
    /\ sem_arrivals = <<>>
    /\ sem_granted = <<>>

IdleQueuedSemaphore ==
    /\ sem_max_value = 0
    /\ sem_value = 0
    /\ sem_queue = <<>>
    /\ sem_cond_lock = Free
    /\ sem_queue_lock = Free
    /\ sem_pc = <<>>
    /\ sem_job = <<>>
    /\ sem_arrivals = <<>>
    /\ sem_granted = <<>>

\* ------------------------------------------------------------------ specifications

Init == InitNaming /\ IdleReversible /\ IdleCheckpoint /\ IdleRead /\ IdleOptimizer /\ IdleBlocks /\ IdleTrain /\ IdleRecords /\ IdleListQueue /\ IdleSharedQueue /\ IdleQueuedSemaphore

Next ==
    \/ \E name \in ScopeNames : EnterScope(name)
    \/ ExitScope
    \/ \E name \in ParamNames : GetParam(name)
    \/ ReversibleEnter
    \/ ReversibleExit
    \/ Reinitialize
    \/ Replay
    \/ Compute

\* the naming contexts and the parameter store under passes over a forward graph
Spec == Init /\ [][Next]_vars

InitChain == InitNaming /\ InitReversible /\ IdleCheckpoint /\ IdleRead /\ IdleOptimizer /\ IdleBlocks /\ IdleTrain /\ IdleRecords /\ IdleListQueue /\ IdleSharedQueue /\ IdleQueuedSemaphore

NextChain ==
    \/ ReversibleForward
    \/ RevnetOut
    \/ ReversibleBackward

\* a chain of reversible blocks run forward, then backward
SpecReversible == InitChain /\ [][NextChain]_vars

InitWriter == InitNaming /\ IdleReversible /\ InitCheckpoint /\ IdleRead /\ IdleOptimizer /\ IdleBlocks /\ IdleTrain /\ IdleRecords /\ IdleListQueue /\ IdleSharedQueue /\ IdleQueuedSemaphore

NextWriter ==
    \/ StructureAttemptFails
    \/ StructureAttemptSucceeds
    \/ WriteAttemptFails
    \/ WriteAttemptSucceeds

\* a checkpoint writer under uploads that fail or succeed
SpecCheckpoint == InitWriter /\ [][NextWriter]_vars

InitReader == InitNaming /\ IdleReversible /\ IdleCheckpoint /\ InitRead /\ IdleOptimizer /\ IdleBlocks /\ IdleTrain /\ IdleRecords /\ IdleListQueue /\ IdleSharedQueue /\ IdleQueuedSemaphore

NextReader ==
    \/ WriteCheckpoint
    \/ ReadCheckpoint
    \/ \E i \in 1..MaxShards : TaskStarts(i)
    \/ \E i \in 1..MaxShards : TaskReturns(i)
    \/ \E i \in 1..MaxShards : TaskRaises(i)
    \/ MapReturns
    \/ MapRaises

\* a checkpoint written by one run and loaded by another, the shard
\* downloads running in parallel
SpecRead == InitReader /\ [][NextReader]_vars

InitUpdate == InitNaming /\ IdleReversible /\ IdleCheckpoint /\ IdleRead /\ InitOptimizer /\ IdleBlocks /\ IdleTrain /\ IdleRecords /\ IdleListQueue /\ IdleSharedQueue /\ IdleQueuedSemaphore

NextUpdate == Update

\* one optimizer update of a parameter
SpecOptimizer == InitUpdate /\ [][NextUpdate]_vars

InitGraph ==
    InitNaming /\ IdleReversible /\ IdleCheckpoint /\ IdleRead /\ IdleOptimizer /\ InitBlocks /\ IdleTrain /\ IdleRecords /\ IdleListQueue /\ IdleSharedQueue /\ IdleQueuedSemaphore

NextGraph ==
    \/ BodyCall
    \/ PlainReturn
    \/ AssignParameters
    \/ InitBlockEnter
    \/ InitBlockExit
    \/ StartCompute
    \/ DefineBlock
    \/ \E b \in 1..(MaxLayers + MaxLayers) : BackwardInvocation(b)
    \/ RestoreSnapshot
    \/ BaseEnter
    \/ BaseExit

\* body_ctx under an initializing pass, then under compute: the forward pass
\* and the backward invocations of its reversible blocks
SpecGraph == InitGraph /\ [][NextGraph]_vars

InitRun ==
    InitNaming /\ IdleReversible /\ IdleCheckpoint /\ IdleRead /\ IdleOptimizer /\ IdleBlocks /\ InitTrain /\ IdleRecords /\ IdleListQueue /\ IdleSharedQueue /\ IdleQueuedSemaphore

NextRun ==
    \/ AcquireOptimizerParameters
    \/ DriverCall
    \/ LoopContinues
    \/ LoopExits
    \/ GetCurrentLr
    \/ Ema
    \/ Shampoo
    \/ Increment

\* a training run: the optimizer buffers are acquired, then the driver step is called
\* again and again
SpecTrain == InitRun /\ [][NextRun]_vars

InitWorker ==
    InitNaming /\ IdleReversible /\ IdleCheckpoint /\ IdleRead /\ IdleOptimizer /\ IdleBlocks /\ IdleTrain /\ InitRecords /\ IdleListQueue /\ IdleSharedQueue /\ IdleQueuedSemaphore

NextWorker ==
    \/ \E n \in 1..MaxFrames : WorkerIteration(n)
    \/ WorkerExit

\* the loop of worker: tokens are collected and written out in files
SpecRecords == InitWorker /\ [][NextWorker]_vars

InitList ==
    InitNaming /\ IdleReversible /\ IdleCheckpoint /\ IdleRead /\ IdleOptimizer /\ IdleBlocks /\ IdleTrain /\ IdleRecords /\ InitListQueue /\ IdleSharedQueue /\ IdleQueuedSemaphore

NextList ==
    \/ \E g \in ListGetters : ListGetEnter(g)
    \/ \E g \in ListGetters : ListGetCheck(g)
    \/ \E g \in ListGetters : ListGetCondAcquire(g)
    \/ \E g \in ListGetters : ListGetWait(g)
    \/ \E g \in ListGetters : ListGetWake(g)
    \/ \E g \in ListGetters : ListGetPop(g)
    \/ \E p \in ListPutters : ListPutEnter(p)
    \/ \E p \in ListPutters : ListPutAppend(p)
    \/ \E p \in ListPutters : ListPutCondAcquire(p)
    \/ \E p \in ListPutters : ListPutNotify(p)

\* processes that call ListQueue.get and ListQueue.put once each
SpecListQueue == InitList /\ [][NextList]_vars

InitFrames ==
    InitNaming /\ IdleReversible /\ IdleCheckpoint /\ IdleRead /\ IdleOptimizer /\ IdleBlocks /\ IdleTrain /\ IdleRecords /\ IdleListQueue /\ InitSharedQueue /\ IdleQueuedSemaphore

NextFrames ==
    \/ \E p \in FramePutters, batches \in 1..(MaxSlice + 1) : FramePut(p, batches)
    \/ \E p \in FramePutters : FrameFits(p)
    \/ \E p \in FramePutters : FrameLock(p)
    \/ \E p \in FramePutters : FrameInsert(p)
    \/ \E p \in FramePutters : FrameCopy(p)
    \/ \E g \in FrameGetters : FrameGetLock(g)
    \/ \E g \in FrameGetters : FrameGetPop(g)
    \/ \E g \in FrameGetters : FrameGetCopy(g)

\* frame workers that put arrays and workers that get them
SpecSharedQueue == InitFrames /\ [][NextFrames]_vars

InitSemaphore ==
    InitNaming /\ IdleReversible /\ IdleCheckpoint /\ IdleRead /\ IdleOptimizer /\ IdleBlocks /\ IdleTrain /\ IdleRecords /\ IdleListQueue /\ IdleSharedQueue /\ InitQueuedSemaphore

NextSemaphore ==
    \/ \E p \in SemProcs, val \in SemVals(MaxValue) : SemArrive(p, val)
    \/ \E p \in SemProcs : SemEnqueue(p)
    \/ \E p \in SemProcs : SemCondAcquire(p)
    \/ \E p \in SemProcs : SemWait(p)
    \/ \E p \in SemProcs : SemTake(p)
    \/ \E p \in SemProcs : SemDequeue(p)
    \/ \E p \in SemProcs : SemReleaseEnter(p)
    \/ \E p \in SemProcs : SemRelease(p)

\* processes that enter and leave a QueuedSemaphoreContext once each
SpecSemaphore == InitSemaphore /\ [][NextSemaphore]_vars

\* ------------------------------------------------------------------ naming claims

\* the name_cache a context referred to before the last call
CacheBefore(c) == last.before.name_caches[last.before.ctxs[c].name_cache]

\* the name_cache a context refers to now
CacheNow(c) == name_caches[ctxs[c].name_cache]

\* the count a cache holds for a name, -1 when it has none
CountIn(cache, name) == IF name \in DOMAIN cache THEN cache[name] ELSE -1

\* earlier add_to_prefix calls with context i's base name on context i's parent
EarlierSame(i) ==
    {j \in 1..(i - 1) : born[j].parent = born[i].parent /\ born[j].name = born[i].name}

\* contexts created before the last call by add_to_prefix on the parent of
\* the context the last call was made on
SiblingsOfCaller ==
    {a \in DOMAIN born : /\ a # last.ctx
                         /\ a < last.child
                         /\ born[a].parent # 0
                         /\ born[a].parent = born[last.ctx].parent}

C4_NoNameCollision == ~collision

\* C4 witness: the same sub-computation ran twice under one parent (two scopes
\* of one base name) and each run created its own parameter of one name
C4_Witness ==
    \E n1, n2 \in DOMAIN owner :
        /\ n1 # n2
        /\ owner[n1][2] = owner[n2][2]
        /\ born[owner[n1][1]].parent = born[owner[n2][1]].parent
        /\ born[owner[n1][1]].name = born[owner[n2][1]].name

\* C5 as stated: in the main pass get_param never adds an entry; it leaves
\* the parameter store, the dims, the learning-rate scales and the PRNG
\* state as they were
C5_RunPassNeverCreates ==
    (mode = "run" /\ last.op = "get_param") =>
        /\ ~last.created
        /\ param_stores = last.before.param_stores
        /\ dim_stores = last.before.dim_stores
        /\ variance_stores = last.before.variance_stores
        /\ ctxs[last.ctx].prng_key = last.before.ctxs[last.ctx].prng_key

\* C9: a second initializing pass, on a fresh Context with the same seed and
\* making the same calls, ends with the same parameter names, the same
\* symbolic shapes and the same values (the same PRNG key for every draw)
C9_ReinitIdentical ==
    (mode = "reinit" /\ pos = Len(script)) =>
        /\ param_stores[ctxs[roots[2]].parameters] = param_stores[ctxs[roots[1]].parameters]
        /\ dim_stores[ctxs[roots[2]].parameter_dims] = dim_stores[ctxs[roots[1]].parameter_dims]
        /\ ctxs[roots[2]].parameters # ctxs[roots[1]].parameters

\* C9 witness: the second pass is over and created parameters inside counted scopes
C9_Witness ==
    /\ mode = "reinit"
    /\ pos = Len(script)
    /\ Cardinality(DOMAIN param_stores[ctxs[roots[2]].parameters]) >= 2
    /\ \E i \in roots[2]..Len(ctxs) : born[i].parent # 0

\* ------------------------------------------------------------------ reversible claims

\* the block whose backward rule ran last
LastBackward == rev_i + 1

BackwardRan == rev_pc \in {"backward", "done"} /\ rev_i < BlockCount

C7_RunningTuple ==
    /\ \A b \in DOMAIN rev_outputs :
           /\ rev_outputs[b][1] = rev_inputs[b][1]
           /\ rev_outputs[b][2] = rev_inputs[b][4]
           /\ rev_outputs[b][3] = rev_outputs[b][2]
           /\ rev_outputs[b][4] = fn(b, rev_inputs[b][1], rev_inputs[b][4]) + rev_inputs[b][2]
           /\ rev_outputs[b][5] = rev_outputs[b][4]
    /\ rev_outputs # <<>> => rev_src = rev_outputs[Len(rev_outputs)]

\* C7 witness: a block ran whose incoming backups differed from its rails
C7_Witness ==
    \E b \in DOMAIN rev_outputs :
        /\ rev_inputs[b][3] # rev_inputs[b][2]
        /\ rev_inputs[b][5] # rev_inputs[b][4]

\* C8: when the backward pass is over, the gradient mapping has exactly the
\* parameter mapping's keys and holds, for every key, the sum of what every
\* block contributed: no later block's contribution was dropped
C8_GradientsAccumulate ==
    rev_pc = "done" =>
        /\ DOMAIN rev_dy[1] = DOMAIN rev_params
        /\ \A k \in DOMAIN rev_params : rev_dy[1][k] = rev_contrib[k]

\* ------------------------------------------------------------------ checkpoint claims

\* the files of the write calls that returned
Returned ==
    {Calls[k] : k \in {j \in 1..Len(Calls) : j < ck_job \/ ck_pc = "done"}}

\* C10: checkpoint.write makes at most UPLOAD_RETRIES attempts; a successful
\* attempt is the last of its call; write raises exactly when UPLOAD_RETRIES
\* attempts failed, and then the writer has uploaded the files of the
\* calls before the failing one and nothing of a later shard or suffix
C10_BoundedRetries ==
    /\ ck_attempt <= UPLOAD_RETRIES
    /\ ck_last.attempt <= UPLOAD_RETRIES
    /\ ck_last.saved => ck_attempt = 0 /\ ck_last.file \in ck_uploaded
    /\ (ck_last.saved /\ ck_pc = "write" /\ ck_last.file[1] # 0) =>
           Calls[ck_job - 1] = ck_last.file
    /\ ck_pc = "failed" <=>
           (/\ ~ck_last.saved
            /\ ck_last.file[1] # 0
            /\ ck_last.attempt = UPLOAD_RETRIES)
    /\ ck_pc \in {"write", "done", "failed"} =>
           ck_uploaded \ {<<0, "structure">>} = Returned

\* C10 witness: a write call in the middle of a writer raised after
\* UPLOAD_RETRIES failed attempts
C10_Witness ==
    /\ ck_pc = "failed"
    /\ ck_job > 1
    /\ ck_job < Len(Calls)
    /\ ck_attempt = UPLOAD_RETRIES

\* ------------------------------------------------------------------ checkpoint reader claims

\* the caller of _read_shards has resumed, with a result or an exception
Resumed == rd_pc \in {"returned", "raised", "unflatten_raised"}

C12_ShardOrder ==
    rd_pc = "returned" =>
        \A k \in DOMAIN rd_new : \A i \in 1..rd_shards :
            /\ k \in DOMAIN rd_params
            /\ Len(rd_new[k].data) = rd_shards
            /\ rd_new[k].data[i] = rd_params[k].data[device_ids(rd_shards)[i]]

\* the downloads finished in another order than they were submitted, and
\* the shards hold different slices
C12_Witness ==
    /\ rd_pc = "returned"
    /\ rd_order # <<>>
    /\ rd_order[1] # 1
    /\ \E k \in DOMAIN rd_new : rd_new[k].data[1] # rd_new[k].data[2]

\* C13: a load fails only when a download failed, never in the merge; into
\* an empty live mapping it imports the checkpoint as it is; otherwise the
\* key set stays, keys of both take the checkpoint's value, live-only keys
\* keep theirs and checkpoint-only keys are not added
C13_Merge ==
    /\ rd_pc # "unflatten_raised"
    /\ rd_pc = "raised" => \E i \in DOMAIN rd_task : rd_task[i] = "raised"
    /\ rd_pc = "returned" =>
          IF DOMAIN rd_live0 = {} THEN rd_live = rd_new
          ELSE /\ DOMAIN rd_live = DOMAIN rd_live0
               /\ \A k \in DOMAIN rd_live :
                     rd_live[k] = IF k \in DOMAIN rd_new THEN rd_new[k] ELSE rd_live0[k]

\* a load into a mapping that shares a key with the checkpoint, has a key of
\* its own and lacks one of the checkpoint's
C13_Witness ==
    /\ rd_pc = "returned"
    /\ DOMAIN rd_live0 \cap DOMAIN rd_new # {}
    /\ DOMAIN rd_live0 \ DOMAIN rd_new # {}
    /\ DOMAIN rd_new \ DOMAIN rd_live0 # {}

\* C14: after a load no live key that matches the ignore pattern holds a
\* value taken from the checkpoint
C14_OptimizerKeysExcluded ==
    rd_pc = "returned" =>
        \A k \in DOMAIN rd_live :
            ignore_match(k) => ~(k \in DOMAIN rd_new /\ rd_live[k] = rd_new[k])

\* C15: a checkpoint written over S shards and read under the same S into an
\* empty mapping gives back the written mapping: the same keys, every tensor
\* identical
C15_RoundTrip ==
    (rd_pc = "returned" /\ rd_shards = rd_wshards /\ DOMAIN rd_live0 = {})
        => rd_live = rd_params

\* a round trip of more than ten tensors that differ from shard to shard
C15_Witness ==
    /\ rd_pc = "returned"
    /\ rd_shards = rd_wshards
    /\ rd_shards >= 2
    /\ DOMAIN rd_live0 = {}
    /\ Cardinality(DOMAIN rd_params) >= 11
    /\ \E k \in DOMAIN rd_params : rd_params[k].data[1] # rd_params[k].data[2]

\* C16: a reader with another shard count than the writer asks for no shard
\* that was not written, and what it loads into an empty mapping are the
\* written tensors
C16_OtherShardCount ==
    rd_shards # rd_wshards =>
        /\ rd_pc = "map" =>
              \A i \in DOMAIN rd_task :
                  ShardPath(device_ids(rd_shards)[i], "parameters") \in DOMAIN rd_storage
        /\ (rd_pc = "returned" /\ DOMAIN rd_live0 = {}) =>
              /\ DOMAIN rd_live = DOMAIN rd_params
              /\ \A k \in DOMAIN rd_params : rd_live[k] = rd_params[k]

\* ------------------------------------------------------------------ optimizer claims

\* the parameters the last update has changed
Updated ==
    IF opt_pc = "updated"
    THEN {k \in DOMAIN opt_grads : opt_parameters[k].op = "plus"}
    ELSE {}

\* the weight a parameter had before the update
WeightBefore(k) ==
    IF opt_parameters[k].weight.op = "times" THEN opt_parameters[k].weight.of
    ELSE opt_parameters[k].weight

\* the clipped gradient update worked with
ClippedGradient(k) ==
    IF opt_parameters[k].update.op = "graft" THEN opt_parameters[k].update.magnitude.of
    ELSE opt_parameters[k].update.of

\* C17, as stated: the clipped gradient's norm is at most gradient_clip
\* times the weight's norm, per slice for a stacked parameter and over the
\* tensor otherwise (squared: |g|^2 * scale^2 <= clip^2 * |w|^2)
C17_ClippedWithinWeightNorm ==
    \A k \in Updated :
        LET clipped == ClippedGradient(k)
            grd == norm(k, clipped.of)
            wgt == norm(k, WeightBefore(k).data)
            clip == opt_config.gradient_clip
        IN  \A i \in 1..Len(grd) :
                RatLeq(RatMul(Rat(grd[i], 1), clipped.scale[i]),
                       RatMul(RatMul(clip, clip), Rat(wgt[i], 1)))

\* C17, amended: the clipped gradient's norm is at most gradient_clip times
\* the larger of the weight's norm and 1e-3, and no division is by zero
C17_ClippedWithinFlooredNorm ==
    \A k \in Updated :
        LET clipped == ClippedGradient(k)
            grd == norm(k, clipped.of)
            wgt == norm(k, WeightBefore(k).data)
            clip == opt_config.gradient_clip
        IN  \A i \in 1..Len(grd) :
                /\ clipped.scale[i].den > 0
                /\ RatLeq(RatMul(Rat(grd[i], 1), clipped.scale[i]),
                          RatMul(RatMul(clip, clip),
                                 Rat(IF wgt[i] >= MIN_WEIGHT_NORM * MIN_WEIGHT_NORM THEN wgt[i]
                                     ELSE MIN_WEIGHT_NORM * MIN_WEIGHT_NORM, 1)))

\* a stacked parameter with a slice of zero weight and a slice whose gradient
\* was scaled down
C17_Witness ==
    \E k \in Updated :
        /\ is_stacked(k)
        /\ \E i \in 1..StackSize : norm(k, WeightBefore(k).data)[i] = 0
        /\ \E i \in 1..StackSize :
              /\ norm(k, ClippedGradient(k).of)[i] > 0
              /\ ClippedGradient(k).scale[i] # Rat(1, 1)

\* C20: a parameter gets the Shampoo branch, grafting and weight decay
\* exactly when it is not small; a small one changes by the Adam update times
\* its learning rate only, and a non-small one has its weight multiplied by
\* the decay factor before the update is added
C20_SmallParameters ==
    \A k \in Updated :
        LET ndim == opt_grads[k].ndim
            named_small == \E i \in 1..Len(k) :
                               k[i] \in {"normalization", "Norm", "norm", "ReZero", "rezero"}
            small == named_small \/ ndim < (IF is_stacked(k) THEN 3 ELSE 2)
            new == opt_parameters[k]
        IN  /\ small =>
                /\ new.update.op = "adam"
                /\ new.weight.op = "tensor"
                /\ buffer_name(k, "shampoo", "preconditioner") \notin DOMAIN opt_parameters
            /\ ~small =>
                /\ new.update.op = "graft"
                /\ new.update.direction.of.op = "shampoo"
                /\ new.weight.op = "times"
                /\ new.weight.of.op = "tensor"
                /\ buffer_name(k, "shampoo", "preconditioner") \in DOMAIN opt_parameters

\* the update of a stacked parameter that is not small
C20_Witness ==
    /\ opt_pc = "updated"
    /\ \E k \in Updated : opt_parameters[k].update.op = "graft" /\ is_stacked(k)

\* ------------------------------------------------------------------ claims on the forward graph

\* the names the initializing pass resolved in block b
InitNames(b) ==
    UNION {blk_invocations[i].names :
               i \in {j \in DOMAIN blk_invocations :
                          /\ blk_invocations[j].pass = "init"
                          /\ blk_invocations[j].block = b}}

\* C18: every invocation of a reversible block's function off the
\* initializing path, the forward call and each backward re-invocation in
\* whatever order the blocks are revisited, starts from the name_cache captured
\* when the block was defined and resolves exactly the parameter names the
\* initializing pass resolved for that block; no get_param of these
\* invocations creates a parameter
C18_SameNames ==
    /\ (blk_pc.pass = "run" /\ blk_pc.at = "enter") =>
           name_caches[ctxs[Top].name_cache] = blk_snapshot[blk_pc.block]
    /\ (blk_pc.pass = "run" /\ blk_pc.at = "calls" /\ Wrapped(blk_pc.block)) =>
           blk_names \subseteq InitNames(blk_pc.block)
    /\ \A i \in DOMAIN blk_invocations :
           blk_invocations[i].pass = "run" =>
               blk_invocations[i].names = InitNames(blk_invocations[i].block)
    /\ ~blk_created

\* C18 witness: the backward pass has re-invoked the first block after a
\* later block, and some block a second time
C18_Witness ==
    /\ \E i, j \in DOMAIN blk_invocations :
           /\ i < j
           /\ blk_invocations[i].phase = "backward"
           /\ blk_invocations[j].phase = "backward"
           /\ blk_invocations[i].block > blk_invocations[j].block
           /\ blk_invocations[j].names # {}
    /\ \E i, j \in DOMAIN blk_invocations :
           /\ i < j
           /\ blk_invocations[i].phase = "backward"
           /\ blk_invocations[j].phase = "backward"
           /\ blk_invocations[i].block = blk_invocations[j].block

\* the contexts a reversible call's function worked on: new_ctx and the
\* scopes entered below it
BlockContexts == last.child..Len(ctxs)

\* C19: when reversible returns on the initializing path, the caller's ctx
\* holds every parameter and every dims entry the function created in its
\* scopes, its name_cache holds every counter the function bumped, and its
\* prng_key is the key left by the function's last random draw
C19_CallerReflectsBlock ==
    (last.op = "reversible" /\ blk_pc.pass = "init") =>
        LET caller == ctxs[last.ctx]
        IN  /\ \A p \in DOMAIN owner :
                   owner[p][1] \in BlockContexts =>
                       /\ p \in DOMAIN param_stores[caller.parameters]
                       /\ p \in DOMAIN dim_stores[caller.parameter_dims]
            /\ \A b \in BlockContexts :
                   /\ born[b].name \in DOMAIN name_caches[caller.name_cache]
                   /\ name_caches[caller.name_cache][born[b].name] >= born[b].suffix
            /\ blk_key.drawn => caller.prng_key = blk_key.left

\* the keys random.normal sampled the parameter p of the initializing pass from
SampledKeys(p) ==
    LET value == param_stores[ctxs[roots[1]].parameters][p]
    IN  {value[i] : i \in DOMAIN value}

\* C25: during an initializing pass every draw of backend.normal uses a key no
\* earlier draw used, draws in sibling scopes and in later blocks included:
\* no two parameters are sampled from the same key
C25_FreshKeys ==
    blk_pc.pass = "init" =>
        \A p, q \in DOMAIN param_stores[ctxs[roots[1]].parameters] :
            p # q => SampledKeys(p) \cap SampledKeys(q) = {}

\* ------------------------------------------------------------------ claims on training steps

\* the value an optional argument stands for when None takes the configured one
Effective(flag, configured) == IF flag = "None" THEN configured ELSE truthy(flag)

\* C21: ema de-biases exactly when heavyball is off and applies the Nesterov
\* correction exactly when nesterov is on, where an argument left None takes
\* the configured value, heavyball from ctx.optimizer.heavyball and nesterov
\* from ctx.optimizer.nesterov
C21_EmaFlags ==
    tr_pc = "shampoo" =>
        /\ tr_ema.debiased = ~Effective(tr_args.heavyball, tr_config.heavyball)
        /\ tr_ema.corrected = Effective(tr_args.nesterov, tr_config.nesterov)

\* the rate of a linear warmup to warmup_end followed by one decay factor per
\* step beyond warmup_end
WarmupThenDecay(opt, step) ==
    IF step <= opt.warmup_end
    THEN RatTimes(opt.learning_rate, Rat(step, opt.warmup_end))
    ELSE RatTimes(opt.learning_rate,
                  RatNorm(Pow(RatOneMinus(opt.exponential_decay), step - opt.warmup_end)))

\* C22: get_current_lr is learning_rate * step / warmup_end with no decay for
\* every step up to warmup_end, and beyond it learning_rate times one factor
\* (1 - exponential_decay) per step beyond warmup_end
C22_WarmupThenDecay ==
    tr_pc = "ema" => tr_lr.value = WarmupThenDecay(tr_config, tr_lr.step)

\* C23: at every training step shampoo stores the updated statistic; it
\* stores a preconditioner root computed from the current statistic when the
\* step is a multiple of statistics_compute_steps and the root it found
\* stored at every other step
C23_RootSchedule ==
    tr_pc = "increment" =>
        LET r    == tr_shampoo
            beta == RatOneMinus(tr_config.shampoo_beta2)
        IN  /\ r.step = tr_step
            /\ (r.step % tr_config.statistics_compute_steps = 0) =>
                   /\ r.new_p = fallback_pth_root(r.prev_p, r.step, r.new_stat,
                                                  tr_config.epsilon)
                   /\ r.new_stat = RatTimes(r.new_statistic,
                                            RatOneMinus(RatNorm(Pow(beta, r.step + 1))))
            /\ (r.step % tr_config.statistics_compute_steps # 0) => r.new_p = r.prev_p
            /\ tr_parameters["shampoo/preconditioner_0"] = r.new_p
            /\ tr_parameters["shampoo/momentum_buffer"] = r.new_statistic
            /\ r.new_statistic = RatPlus(RatTimes(r.old_statistic, beta),
                                         RatTimes(RatTimes(tr_grad, tr_grad),
                                                  RatOneMinus(beta)))

\* C23 witness: a training step that is no multiple of statistics_compute_steps
\* has kept the root an earlier step computed, while the statistic changed
C23_Witness ==
    /\ tr_pc = "increment"
    /\ tr_step % tr_config.statistics_compute_steps # 0
    /\ tr_shampoo.prev_p # eye
    /\ tr_shampoo.new_p = tr_shampoo.prev_p
    /\ tr_shampoo.new_statistic # tr_shampoo.old_statistic

\* C24: every call of the driver step runs train_step device_steps times, the
\* first call from current_step = 1 included, and reads each data index
\* 0 .. device_steps - 1 exactly once
C24_FixedIterations ==
    \A i \in DOMAIN tr_invocations :
        /\ tr_invocations[i].iterations = tr_config.device_steps
        /\ \A k \in 0..(tr_config.device_steps - 1) :
               Cardinality({j \in DOMAIN tr_invocations[i].slices :
                                tr_invocations[i].slices[j] = k}) = 1

\* ------------------------------------------------------------------ claims on the tfrecord writer

\* the places of the uploaded files: file and position in it
UploadedPlaces ==
    {<<f, k>> : f \in DOMAIN rec_uploaded, k \in 1..MaxChunk} \cap
    UNION {{<<f, k>> : k \in DOMAIN rec_uploaded[f].tokens} : f \in DOMAIN rec_uploaded}

\* C28: after write_tfrecords has uploaded at least one file the token buffer
\* holds exactly the len(tokens) mod chunk_size trailing tokens that were not
\* uploaded, none when the length is a multiple of chunk_size, and over the
\* calls of a worker no token is uploaded twice
C28_ResidualKept ==
    /\ rec_last.added >= 1 =>
           LET residual == Len(rec_last.before) % rec_chunk_size
           IN  rec_tokens = SubSeq(rec_last.before, Len(rec_last.before) - residual + 1,
                                   Len(rec_last.before))
    /\ \A a, b \in UploadedPlaces :
           a # b => rec_uploaded[a[1]].tokens[a[2]] # rec_uploaded[b[1]].tokens[b[2]]

\* ------------------------------------------------------------------ claims on ListQueue

\* C27: ListQueue has no lost wakeup: a get does not remain blocked in
\* cond.wait while the list is non-empty; whenever a getter waits and the
\* list holds an item, a put is still on its way to notify_all
C27_NoLostWakeup ==
    \A g \in ListGetters :
        (lq_pc[g] = "waiting" /\ lq_list # <<>>) =>
            \E p \in ListPutters : lq_pc[p] \in {"cond", "notify"}

\* ------------------------------------------------------- claims on SharedQueue

\* the array a recorded put stored in its region
Stored(rec) ==
    [k \in 1..(rec.region[2] - rec.region[1]) |-> Row(rec.call, rec.offset + k - 1)]

\* C26: every array SharedQueue.get returns is exactly the array one put
\* stored for the region it was read from, with no row that was never
\* written and no row of another put.
C26_GetReturnsPut ==
    \A i \in DOMAIN sq_returned :
        \E j \in DOMAIN sq_recorded :
            /\ sq_recorded[j].region = sq_returned[i].region
            /\ sq_returned[i].rows = Stored(sq_recorded[j])

\* C29: a put of at most a quarter of the capacity, issued while the queue is
\* non-empty and has a free gap larger than the batch, records a new region
\* inside [0, capacity] that overlaps no recorded region, and the recorded
\* regions are pairwise disjoint.
C29_PutRecordsRegion ==
    /\ \A p \in FramePutters : sq_local[p].promised => sq_pc[p] # "raised"
    /\ \A j \in DOMAIN sq_recorded :
           /\ 0 <= sq_recorded[j].region[1]
           /\ sq_recorded[j].region[1] < sq_recorded[j].region[2]
           /\ sq_recorded[j].region[2] <= Capacity
           /\ \A k \in DOMAIN sq_recorded[j].among :
                  \/ sq_recorded[j].among[k][2] <= sq_recorded[j].region[1]
                  \/ sq_recorded[j].region[2] <= sq_recorded[j].among[k][1]
    /\ \A a, b \in DOMAIN sq_indices :
           a # b => \/ sq_indices[a][2] <= sq_indices[b][1]
                    \/ sq_indices[b][2] <= sq_indices[a][1]

\* ---------------------------------------------------- claims on QueuedSemaphore

\* C30: QueuedSemaphore grants acquires in arrival order and only with enough
\* value: every acquire that returned found its job id at the head of the
\* queue and a value of at least its amount, the acquires returned in the
\* order their job ids were enqueued, and the value is never negative.
C30_OrderedGrants ==
    /\ sem_value >= 0
    /\ Len(sem_granted) <= Len(sem_arrivals)
    /\ \A i \in DOMAIN sem_granted :
           /\ sem_granted[i].head = sem_granted[i].job_id
           /\ sem_granted[i].value >= sem_granted[i].val
           /\ i <= Len(sem_arrivals) => sem_granted[i].job_id = sem_arrivals[i]

\* two acquires have returned, the later one after waiting on the condition
\* although the value sufficed for both: it waited for the head of the queue
C30_Witness ==
    /\ Len(sem_granted) >= 2
    /\ sem_granted[2].waited
    /\ sem_granted[1].val >= 1
    /\ sem_granted[2].val >= 1
    /\ sem_granted[1].val + sem_granted[2].val <= sem_max_value

====
